---- MODULE Spec2Model ----
(***************************************************************************)
(* Chord transposition engine (src/src/utils/transpose.ts), data           *)
(* validation pipeline (src/src/utils/validation.ts) and the hooks         *)
(* useTranspose (src/unnamed/part_005) and useAutoScroll                   *)
(* (src/src/hooks/useAutoScroll.ts).                                       *)
(*                                                                         *)
(* A JavaScript string is modelled as a sequence of one-character strings, *)
(* so that parsing, trimming, case conversion and pattern matching are     *)
(* computed character by character as the source does.  A call that can    *)
(* throw returns a record [err, val]: err = TRUE is the thrown             *)
(* "Invalid note" error, otherwise val is the returned value.  A mounted    *)
(* hook keeps its React state and its refs in the variable hook; each of   *)
(* its callbacks is one step, taken together with the render that follows  *)
(* it, and ret is what the callback returned or threw.                     *)
(***************************************************************************)
EXTENDS Integers, Sequences, FiniteSets, TLC

VARIABLES pc, call, args, ret, hook

vars == <<pc, call, args, ret, hook>>

-----------------------------------------------------------------------------
(* Bounds of the explored inputs.                                          *)

\* longest free-form string handed to transposeChord and getNoteIndex
MaxChordLen == 2
\* most tokens in a lyric text handed to transposeLyrics
MaxTokens == 3
\* longest free-form title handed to validateMetadata
MaxTitleLen == 2
\* most sections and most detected chords of a song handed to
\* validateParsedSong
MaxSections == 2
\* largest scrollHeight - clientHeight of the container useAutoScroll
\* scrolls, in half pixels
MaxScroll == 3
\* longest chord list handed to detectKey and transposeChords
MaxChords == 3

\* SemitoneShift ranges over -12 .. 12
MaxShift == 12

Shifts == (0 - MaxShift)..MaxShift

-----------------------------------------------------------------------------
(* JavaScript string primitives.                                           *)

UPPER == <<"A","B","C","D","E","F","G","H","I","J","K","L","M",
           "N","O","P","Q","R","S","T","U","V","W","X","Y","Z">>
LOWER == <<"a","b","c","d","e","f","g","h","i","j","k","l","m",
           "n","o","p","q","r","s","t","u","v","w","x","y","z">>

\* the JavaScript remainder a % b for b > 0: it takes the sign of a
rem(a, b) == IF a >= 0 THEN a % b ELSE 0 - ((0 - a) % b)

\* index of x in seq counted from 0, or -1 (Array.prototype.indexOf)
indexOf(seq, x) ==
  IF \E i \in 1..Len(seq) : seq[i] = x
  THEN (CHOOSE i \in 1..Len(seq) : seq[i] = x /\ \A j \in 1..(i-1) : seq[j] # x) - 1
  ELSE -1

lowerChar(c) == IF indexOf(UPPER, c) >= 0 THEN LOWER[indexOf(UPPER, c) + 1] ELSE c
upperChar(c) == IF indexOf(LOWER, c) >= 0 THEN UPPER[indexOf(LOWER, c) + 1] ELSE c

toLowerCase(s) == [i \in 1..Len(s) |-> lowerChar(s[i])]

\* characters matched by \s and removed by String.prototype.trim
WhiteSpace == {" ", "\t", "\n", "\r"}
\* characters the pattern atom "." does not match
LineTerminators == {"\n", "\r"}

\* the elements of a sequence
range(seq) == { seq[i] : i \in 1..Len(seq) }

slice(s, from) == SubSeq(s, from + 1, Len(s))

trim(s) ==
  IF \A i \in 1..Len(s) : s[i] \in WhiteSpace
  THEN <<>>
  ELSE LET first == CHOOSE i \in 1..Len(s) :
                      s[i] \notin WhiteSpace /\ \A j \in 1..(i-1) : s[j] \in WhiteSpace
           last  == CHOOSE i \in 1..Len(s) :
                      s[i] \notin WhiteSpace /\ \A j \in (i+1)..Len(s) : s[j] \in WhiteSpace
       IN  SubSeq(s, first, last)

\* s.includes(sub)
includes(s, sub) ==
  \E i \in 0..(Len(s) - Len(sub)) : SubSeq(s, i + 1, i + Len(sub)) = sub

endsWith(s, sub) ==
  Len(s) >= Len(sub) /\ SubSeq(s, Len(s) - Len(sub) + 1, Len(s)) = sub

\* s.replace(sub, '') for a string pattern: the first occurrence only
removeFirst(s, sub) ==
  IF includes(s, sub)
  THEN LET i == CHOOSE k \in 0..(Len(s) - Len(sub)) :
                  /\ SubSeq(s, k + 1, k + Len(sub)) = sub
                  /\ \A j \in 0..(k-1) : SubSeq(s, j + 1, j + Len(sub)) # sub
       IN  SubSeq(s, 1, i) \o SubSeq(s, i + Len(sub) + 1, Len(s))
  ELSE s

-----------------------------------------------------------------------------
(* Results of calls that may throw.                                        *)

Ok(v) == [err |-> FALSE, val |-> v]
\* throw new Error(`Invalid note: ${note}`)
InvalidNote(note) == [err |-> TRUE, val |-> note]

-----------------------------------------------------------------------------
(* Constants of the note/key model.                                        *)

NOTES == << <<"C">>, <<"C","#">>, <<"D">>, <<"D","#">>, <<"E">>, <<"F">>,
            <<"F","#">>, <<"G">>, <<"G","#">>, <<"A">>, <<"A","#">>, <<"B">> >>
FLAT_NOTES == << <<"C">>, <<"D","b">>, <<"D">>, <<"E","b">>, <<"E">>, <<"F">>,
                 <<"G","b">>, <<"G">>, <<"A","b">>, <<"A">>, <<"B","b">>, <<"B">> >>
SHARP_NOTES == << <<"C">>, <<"C","#">>, <<"D">>, <<"D","#">>, <<"E">>, <<"F">>,
                  <<"F","#">>, <<"G">>, <<"G","#">>, <<"A">>, <<"A","#">>, <<"B">> >>

MAJOR_KEYS == <<
  [name |-> <<"C">>,     index |-> 0],
  [name |-> <<"G">>,     index |-> 7],
  [name |-> <<"D">>,     index |-> 2],
  [name |-> <<"A">>,     index |-> 9],
  [name |-> <<"E">>,     index |-> 4],
  [name |-> <<"B">>,     index |-> 11],
  [name |-> <<"F","#">>, index |-> 6],
  [name |-> <<"D","b">>, index |-> 1],
  [name |-> <<"A","b">>, index |-> 8],
  [name |-> <<"E","b">>, index |-> 3],
  [name |-> <<"B","b">>, index |-> 10],
  [name |-> <<"F">>,     index |-> 5] >>

MINOR_KEYS == [i \in 1..Len(MAJOR_KEYS) |->
  [name  |-> NOTES[((MAJOR_KEYS[i].index + 9) % 12) + 1] \o <<"m">>,
   index |-> (MAJOR_KEYS[i].index + 9) % 12]]

-----------------------------------------------------------------------------
(* Helper functions.                                                       *)

\* the flatMap literal of normalizeToSharp; <<>> stands for "no such key"
flatMap(lowerNote) ==
  CASE lowerNote = <<"d","b">> -> <<"c","#">>
    [] lowerNote = <<"e","b">> -> <<"d","#">>
    [] lowerNote = <<"g","b">> -> <<"f","#">>
    [] lowerNote = <<"a","b">> -> <<"g","#">>
    [] lowerNote = <<"b","b">> -> <<"a","#">>
    [] lowerNote = <<"c","b">> -> <<"b">>
    [] lowerNote = <<"f","b">> -> <<"e">>
    [] OTHER -> <<>>

\* flatMap[lowerNote] || note.charAt(0).toUpperCase() + note.slice(1)
mappedOrCapitalised(mapped, note) ==
  IF mapped # <<>> THEN mapped
  ELSE IF note = <<>> THEN <<>>
  ELSE <<upperChar(note[1])>> \o slice(note, 1)

normalizeToSharp(note) == mappedOrCapitalised(flatMap(toLowerCase(note)), note)

\* if (index === -1) throw ...; return index
indexOrThrow(index, note) == IF index = -1 THEN InvalidNote(note) ELSE Ok(index)

getNoteIndex(note) == indexOrThrow(indexOf(NOTES, normalizeToSharp(note)), note)

\* notes[((currentIndex + semitones) % 12 + 12) % 12]
noteAtShift(currentIndex, semitones, useFlats) ==
  IF currentIndex.err THEN currentIndex
  ELSE Ok((IF useFlats THEN FLAT_NOTES ELSE SHARP_NOTES)
            [rem(rem(currentIndex.val + semitones, 12) + 12, 12) + 1])

transposeNote(note, semitones, useFlats) ==
  noteAtShift(getNoteIndex(note), semitones, useFlats)

-----------------------------------------------------------------------------
(* Chord parsing.                                                          *)

NoteLetters == {"A","B","C","D","E","F","G"}
Accidentals == {"#","b"}

\* length of the longest prefix of s that matches [A-G][#b]?, 0 if none
noteLen(s) ==
  IF Len(s) >= 1 /\ s[1] \in NoteLetters
  THEN IF Len(s) >= 2 /\ s[2] \in Accidentals THEN 2 ELSE 1
  ELSE 0

\* length of the suffix of s that matches (\/[A-G][#b]?)$, 0 if none
bassLen(s) ==
  IF Len(s) >= 3 /\ s[Len(s) - 2] = "/" /\ s[Len(s) - 1] \in NoteLetters
                 /\ s[Len(s)] \in Accidentals
  THEN 3
  ELSE IF Len(s) >= 2 /\ s[Len(s) - 1] = "/" /\ s[Len(s)] \in NoteLetters
       THEN 2
       ELSE 0

\* /^([A-G][#b]?)(.*?)(\/[A-G][#b]?)?$/ on the trimmed chord t, rest being
\* t after its root.  The root is greedy, the quality is the shortest text
\* that lets what follows be a bass or nothing, and "." matches no line
\* terminator.  bass = <<>> is undefined.
matchChord(chord, t, rest) ==
  IF noteLen(t) = 0 \/ \E i \in 1..Len(rest) : rest[i] \in LineTerminators
  THEN [root |-> chord, quality |-> <<>>, bass |-> <<>>]
  ELSE [root    |-> SubSeq(t, 1, noteLen(t)),
        quality |-> SubSeq(rest, 1, Len(rest) - bassLen(rest)),
        bass    |-> IF bassLen(rest) = 0 THEN <<>>
                    ELSE SubSeq(rest, Len(rest) - bassLen(rest) + 2, Len(rest))]

restAfterRoot(t) == slice(t, noteLen(t))

parseTrimmed(chord, t) == matchChord(chord, t, restAfterRoot(t))

parseChord(chord) == parseTrimmed(chord, trim(chord))

-----------------------------------------------------------------------------
(* Core transposition.                                                     *)

\* `${newRoot}${parsed.quality}/${newBass}`, or without the bass; newBass is
\* Ok(<<>>) when the chord has no bass
reconstruct(newRoot, quality, newBass) ==
  IF newRoot.err THEN newRoot
  ELSE IF newBass.err THEN newBass
  ELSE IF newBass.val # <<>> THEN Ok(newRoot.val \o quality \o <<"/">> \o newBass.val)
  ELSE Ok(newRoot.val \o quality)

transposeParsed(parsed, semitones, useFlats) ==
  reconstruct(transposeNote(parsed.root, semitones, useFlats),
              parsed.quality,
              IF parsed.bass # <<>>
              THEN transposeNote(parsed.bass, semitones, useFlats)
              ELSE Ok(<<>>))

\* transposeChord without the zero-shift short cut
transposeChordAlwaysParses(chord, semitones, useFlats) ==
  IF trim(chord) = <<>>
  THEN Ok(chord)
  ELSE transposeParsed(parseChord(chord), semitones, useFlats)

transposeChord(chord, semitones, useFlats) ==
  IF semitones = 0 \/ trim(chord) = <<>>
  THEN Ok(chord)
  ELSE transposeParsed(parseChord(chord), semitones, useFlats)

\* one more element of a mapped array: the first throw aborts the map
cons(head, tail) ==
  IF head.err THEN head
  ELSE IF tail.err THEN tail
  ELSE Ok(<<head.val>> \o tail.val)

\* chords.map(chord => transposeChord(chord, semitones))
RECURSIVE mapTransposeChord(_, _)
mapTransposeChord(chords, semitones) ==
  IF chords = <<>> THEN Ok(<<>>)
  ELSE cons(transposeChord(Head(chords), semitones, FALSE),
            mapTransposeChord(Tail(chords), semitones))

transposeChords(chords, semitones) ==
  IF semitones = 0 THEN Ok(chords) ELSE mapTransposeChord(chords, semitones)

-----------------------------------------------------------------------------
(* Lyric transposition: the patterns of transposeLyrics.                   *)

\* the character at position i, "" past either end
at(s, i) == IF i >= 1 /\ i <= Len(s) THEN s[i] ELSE ""

\* the text a begins at position p of s
startsAt(s, p, a) ==
  p >= 1 /\ p + Len(a) - 1 <= Len(s) /\ SubSeq(s, p, p + Len(a) - 1) = a

\* position of the first "]" at or after i, 0 if none
firstClose(s, i) ==
  IF \E e \in i..Len(s) : s[e] = "]"
  THEN CHOOSE e \in i..Len(s) : s[e] = "]" /\ \A j \in i..(e-1) : s[j] # "]"
  ELSE 0

\* (maj|m|dim|aug|sus|add|7| maj7| m7| 9| 11| 13), as written in both
\* line patterns: the last five alternatives begin with a space
qualityAlternatives ==
  { <<"m","a","j">>, <<"m">>, <<"d","i","m">>, <<"a","u","g">>,
    <<"s","u","s">>, <<"a","d","d">>, <<"7">>,
    <<" ","m","a","j","7">>, <<" ","m","7">>, <<" ","9">>,
    <<" ","1","1">>, <<" ","1","3">> }

\* positions right after a match of [A-G][#b]? that starts at i
afterNote(s, i) ==
  IF at(s, i) \in NoteLetters
  THEN {i + 1} \cup (IF at(s, i + 1) \in Accidentals THEN {i + 2} ELSE {})
  ELSE {}

\* positions right after a match of (quality)? that starts at a position of P
afterQuality(s, P) ==
  P \cup UNION { { p + Len(q) : q \in { a \in qualityAlternatives : startsAt(s, p, a) } }
                   : p \in P }

\* positions right after a match of [A-G][#b]?(quality)? that starts at i
afterChord(s, i) == afterQuality(s, afterNote(s, i))

\* positions right after a match of \s* that starts at i
afterSpaces(s, i) ==
  { j \in i..(Len(s) + 1) : \A k \in i..(j-1) : s[k] \in WhiteSpace }

\* positions right after a match of \[[^\]]+\]\s* that starts at i, the
\* first "]" at or after i being at position close
afterBracketTo(s, i, close) ==
  IF at(s, i) = "[" /\ close >= i + 2 THEN afterSpaces(s, close + 1) ELSE {}

\* positions right after a match of \[[^\]]+\]\s* that starts at i
afterBracket(s, i) == afterBracketTo(s, i, firstClose(s, i))

\* positions right after a match of ,?\s*[A-G][#b]?(quality)? starting at i
afterListItem(s, i) ==
  UNION { afterChord(s, j) :
            j \in UNION { afterSpaces(s, k) :
                            k \in {i} \cup (IF at(s, i) = "," THEN {i + 1} ELSE {}) } }

\* positions right after a match of (,?\s*[A-G][#b]?(quality)?)* that starts
\* at a position of P, more being P and the positions one item after P
RECURSIVE afterListItems(_, _)
moreListItems(s, P, more) == IF more = P THEN P ELSE afterListItems(s, more)
afterListItems(s, P) ==
  moreListItems(s, P, P \cup UNION { afterListItem(s, p) : p \in P })

\* positions right after a match of (\[[^\]]+\]\s*)* that starts at a
\* position of P, more being P and the positions one token after P
RECURSIVE afterBrackets(_, _)
moreBrackets(s, P, more) == IF more = P THEN P ELSE afterBrackets(s, more)
afterBrackets(s, P) ==
  moreBrackets(s, P, P \cup UNION { afterBracket(s, p) : p \in P })

\* positions right after a match of
\* \[[A-G][#b]?(quality)?(,?\s*[A-G][#b]?(quality)?)*\] that starts at i
afterChordList(s, i) ==
  IF at(s, i) # "[" THEN {}
  ELSE { p + 1 : p \in { q \in afterListItems(s, afterChord(s, i + 1)) : at(s, q) = "]" } }

\* /^(\[[^\]]+\]\s*)*(\[chord list\])\s*$/.test(line)
aboveFormat(line) ==
  \E p \in afterBrackets(line, {1}) :
    \E e \in afterChordList(line, p) : (Len(line) + 1) \in afterSpaces(line, e)

\* positions right after a match of (?:\/[A-G][#b]?)? that starts at a
\* position of P
afterBass(s, P) ==
  P \cup UNION { afterNote(s, p + 1) : p \in { q \in P : at(s, q) = "/" } }

\* the position of ends where a "]" stands, 0 if there is none
closeAmong(s, ends) ==
  IF \E e \in ends : at(s, e) = "]" THEN CHOOSE e \in ends : at(s, e) = "]" ELSE 0

\* position of the "]" closing a match of
\* \[([A-G][#b]?(?:quality)?(?:\/[A-G][#b]?)?)\] that starts at i, 0 if none
inlineMatch(s, i) ==
  IF at(s, i) # "[" THEN 0
  ELSE closeAmong(s, afterBass(s, afterChord(s, i + 1)))

\* inlineFormat.test(line)
inlineFormat(line) == \E i \in 1..Len(line) : inlineMatch(line, i) # 0

\* position of the "]" closing a match of \[([A-G][#b]?[^\]]*)\] that
\* starts at i, 0 if none
aboveMatch(s, i) ==
  IF at(s, i) = "[" /\ at(s, i + 1) \in NoteLetters THEN firstClose(s, i + 1) ELSE 0

\* the text of one replacement followed by the replaced rest of the line
replaced(chord, rest) ==
  IF chord.err THEN chord
  ELSE IF rest.err THEN rest
  ELSE Ok(<<"[">> \o chord.val \o <<"]">> \o rest.val)

\* one unmatched character followed by the replaced rest of the line
kept(char, rest) == IF rest.err THEN rest ELSE Ok(<<char>> \o rest.val)

\* line.replace(pattern, (_, chord) => `[${transposeChord(chord, semitones)}]`)
\* from position i on, for a global pattern; above selects the pattern and
\* close is the "]" of the match that starts at i, 0 if none starts there
RECURSIVE replaceChords(_, _, _, _)
replaceAt(line, i, semitones, above, close) ==
  IF close = 0
  THEN kept(line[i], replaceChords(line, i + 1, semitones, above))
  ELSE replaced(transposeChord(SubSeq(line, i + 1, close - 1), semitones, FALSE),
                replaceChords(line, close + 1, semitones, above))
replaceChords(line, i, semitones, above) ==
  IF i > Len(line) THEN Ok(<<>>)
  ELSE replaceAt(line, i, semitones, above,
                 IF above THEN aboveMatch(line, i) ELSE inlineMatch(line, i))

\* the callback of lines.map in transposeLyrics; above and inline are the
\* results of the two pattern tests
transposeMatched(line, semitones, above, inline) ==
  IF above \/ inline THEN replaceChords(line, 1, semitones, above) ELSE Ok(line)

transposeLine(line, semitones) ==
  transposeMatched(line, semitones, aboveFormat(line), inlineFormat(line))

\* lyrics.split('\n')
RECURSIVE split(_)
split(s) ==
  IF \E i \in 1..Len(s) : s[i] = "\n"
  THEN LET i == CHOOSE k \in 1..Len(s) : s[k] = "\n" /\ \A j \in 1..(k-1) : s[j] # "\n"
       IN  <<SubSeq(s, 1, i - 1)>> \o split(SubSeq(s, i + 1, Len(s)))
  ELSE <<s>>

\* lines.join('\n')
RECURSIVE join(_)
join(lines) ==
  IF Len(lines) = 0 THEN <<>>
  ELSE IF Len(lines) = 1 THEN lines[1]
  ELSE lines[1] \o <<"\n">> \o join(Tail(lines))

RECURSIVE mapTransposeLine(_, _)
mapTransposeLine(lines, semitones) ==
  IF lines = <<>> THEN Ok(<<>>)
  ELSE cons(transposeLine(Head(lines), semitones),
            mapTransposeLine(Tail(lines), semitones))

\* transposedLines.join('\n')
joined(transposedLines) ==
  IF transposedLines.err THEN transposedLines ELSE Ok(join(transposedLines.val))

transposeLyrics(lyrics, semitones) ==
  IF semitones = 0 THEN Ok(lyrics)
  ELSE joined(mapTransposeLine(split(lyrics), semitones))

-----------------------------------------------------------------------------
(* Key detection.                                                          *)

\* seq without the later repeats of an element (the seen-set loop); init is
\* the result for seq without its last element
appendUnseen(init, last) ==
  IF \E i \in 1..Len(init) : init[i] = last THEN init ELSE Append(init, last)

RECURSIVE uniqueKeys(_)
uniqueKeys(seq) ==
  IF seq = <<>> THEN <<>>
  ELSE appendUnseen(uniqueKeys(SubSeq(seq, 1, Len(seq) - 1)), seq[Len(seq)])

Digits == <<"0","1","2","3","4","5","6","7","8","9">>

\* a property name that is a canonical array index: Object.entries lists
\* these first, in ascending numeric order
isArrayIndex(key) ==
  /\ Len(key) >= 1
  /\ \A i \in 1..Len(key) : indexOf(Digits, key[i]) >= 0
  /\ (Len(key) = 1 \/ key[1] # "0")

RECURSIVE numericValue(_)
numericValue(key) ==
  IF key = <<>> THEN 0
  ELSE 10 * numericValue(SubSeq(key, 1, Len(key) - 1)) + indexOf(Digits, key[Len(key)])

\* property a is listed before property b, a having been inserted as the
\* j-th and b as the i-th
listedBefore(a, j, b, i) ==
  IF isArrayIndex(a)
  THEN ~isArrayIndex(b) \/ numericValue(a) < numericValue(b)
  ELSE ~isArrayIndex(b) /\ j < i

\* the property names keys (in insertion order) in the order of Object.entries
propertyOrder(keys) ==
  [k \in 1..Len(keys) |->
     keys[CHOOSE i \in 1..Len(keys) :
            Cardinality({ j \in 1..Len(keys) : listedBefore(keys[j], j, keys[i], i) }) = k - 1]]

\* the [root, count] pairs of the tally of roots, keys being its properties
countEntries(roots, keys) ==
  [k \in 1..Len(keys) |->
     [root  |-> keys[k],
      count |-> Cardinality({ i \in 1..Len(roots) : roots[i] = keys[k] })]]

\* the tally chordCounts of a list of roots, as Object.entries lists it
tally(roots) == countEntries(roots, propertyOrder(uniqueKeys(roots)))

\* Object.entries(chordCounts)
chordCountEntries(chords) ==
  tally([i \in 1..Len(chords) |-> parseChord(chords[i]).root])

\* .sort((a, b) => b[1] - a[1]).map(([root]) => root); the sort is stable
sortByCount(entries) ==
  [k \in 1..Len(entries) |->
     entries[CHOOSE i \in 1..Len(entries) :
               Cardinality({ j \in 1..Len(entries) :
                               \/ entries[j].count > entries[i].count
                               \/ entries[j].count = entries[i].count /\ j < i }) = k - 1].root]

sortedRoots(chords) == sortByCount(chordCountEntries(chords))

\* keys.filter(k => k.index === rootIndex).map(k => k.name)
RECURSIVE namesAtIndex(_, _)
namesAtIndex(keys, rootIndex) ==
  IF keys = <<>> THEN <<>>
  ELSE (IF Head(keys).index = rootIndex THEN <<Head(keys).name>> ELSE <<>>)
       \o namesAtIndex(Tail(keys), rootIndex)

\* the keys of one root followed by the keys of the roots after it; the
\* first throw of getNoteIndex aborts the flatMap
keysOfRoot(rootIndex, rest) ==
  IF rootIndex.err THEN rootIndex
  ELSE IF rest.err THEN rest
  ELSE Ok(namesAtIndex(MAJOR_KEYS, rootIndex.val)
          \o namesAtIndex(MINOR_KEYS, rootIndex.val)
          \o rest.val)

\* sortedRoots.flatMap(root => [...majors at root, ...minors at root])
RECURSIVE possibleKeysOf(_)
possibleKeysOf(roots) ==
  IF roots = <<>> THEN Ok(<<>>)
  ELSE keysOfRoot(getNoteIndex(Head(roots)), possibleKeysOf(Tail(roots)))

\* c.toLowerCase().includes('m') && !c.toLowerCase().includes('maj')
minorIn(lower) == includes(lower, <<"m">>) /\ ~includes(lower, <<"m","a","j">>)
signalsMinor(c) == minorIn(toLowerCase(c))

minorVersionFirstOfTable(detectedKey, found) ==
  IF ~endsWith(detectedKey, <<"m">>) /\ found # {}
  THEN MINOR_KEYS[1].name
  ELSE detectedKey

\* MINOR_KEYS.find(k => k.name.replace('m', '') === possibleKeys[0]) applied
\* to detectedKey; found holds the positions of the matching minor keys
minorVersion(detectedKey, found) ==
  IF ~endsWith(detectedKey, <<"m">>) /\ found # {}
  THEN MINOR_KEYS[CHOOSE i \in found : \A j \in found : i <= j].name
  ELSE detectedKey

\* the "best guess" block: the top candidate, turned into the minor key whose
\* name without 'm' equals it when every chord signals minor
bestGuess(chords, possibleKeys) ==
  IF /\ \E i \in 1..Len(chords) : signalsMinor(chords[i])
     /\ ~\E i \in 1..Len(chords) : ~signalsMinor(chords[i])
  THEN minorVersion(IF possibleKeys = <<>> THEN <<"C">> ELSE possibleKeys[1],
                    { i \in 1..Len(MINOR_KEYS) :
                        possibleKeys # <<>> /\
                        removeFirst(MINOR_KEYS[i].name, <<"m">>) = possibleKeys[1] })
  ELSE IF possibleKeys = <<>> THEN <<"C">> ELSE possibleKeys[1]

confidenceOfFromTen(n) == IF n >= 10 THEN "high" ELSE IF n > 5 THEN "medium" ELSE "low"

confidenceOf(n) == IF n > 10 THEN "high" ELSE IF n > 5 THEN "medium" ELSE "low"

\* seq.slice(0, n)
firstN(seq, n) == SubSeq(seq, 1, IF Len(seq) < n THEN Len(seq) ELSE n)

\* the result of detectKey for a non-empty list with candidates possibleKeys
detected(chords, possibleKeys) ==
  IF possibleKeys.err THEN possibleKeys
  ELSE Ok([detectedKey  |-> bestGuess(chords, possibleKeys.val),
           confidence   |-> confidenceOf(Len(chords)),
           possibleKeys |-> firstN(uniqueKeys(possibleKeys.val), 5)])

detectKey(chords) ==
  IF Len(chords) = 0
  THEN Ok([detectedKey  |-> <<"C">>,
           confidence   |-> "low",
           possibleKeys |-> [i \in 1..Len(MAJOR_KEYS) |-> MAJOR_KEYS[i].name]])
  ELSE detected(chords, possibleKeysOf(sortedRoots(chords)))

-----------------------------------------------------------------------------
(* Key transposition.                                                      *)

\* if (distance > 6) distance -= 12
wrapDown(distance) == IF distance > 6 THEN distance - 12 ELSE distance
\* if (distance < -6) distance += 12
wrapUp(distance) == IF distance < -6 THEN distance + 12 ELSE distance

distanceBetween(fromIndex, toIndex) ==
  IF fromIndex.err THEN fromIndex
  ELSE IF toIndex.err THEN toIndex
  ELSE Ok(wrapUp(wrapDown(toIndex.val - fromIndex.val)))

getSemitoneDistance(fromKey, toKey) ==
  distanceBetween(getNoteIndex(removeFirst(fromKey, <<"m">>)),
                  getNoteIndex(removeFirst(toKey, <<"m">>)))

transposeKey(fromKey, toKey) == getSemitoneDistance(fromKey, toKey)

\* Beginner-friendly keys
BEGINNER_KEYS == << <<"G">>, <<"C">>, <<"D">>, <<"A">>, <<"E">>,
                    <<"A","m">>, <<"E","m">>, <<"D","m">> >>

\* one { key, distance } element placed before those of the keys after it;
\* the first throw of transposeKey aborts the map
easyKey(key, distance, rest) ==
  IF distance.err THEN distance
  ELSE IF rest.err THEN rest
  ELSE Ok(<<[key |-> key, distance |-> distance.val]>> \o rest.val)

\* keys.map(key => ({ key, distance: transposeKey(currentKey, key) }))
RECURSIVE easyKeys(_, _)
easyKeys(currentKey, keys) ==
  IF keys = <<>> THEN Ok(<<>>)
  ELSE easyKey(Head(keys), transposeKey(currentKey, Head(keys)),
               easyKeys(currentKey, Tail(keys)))

abs(x) == IF x < 0 THEN 0 - x ELSE x

\* .sort((a, b) => Math.abs(a.distance) - Math.abs(b.distance)); the sort is
\* stable
sortByDistance(entries) ==
  [k \in 1..Len(entries) |->
     entries[CHOOSE i \in 1..Len(entries) :
               Cardinality({ j \in 1..Len(entries) :
                               \/ abs(entries[j].distance) < abs(entries[i].distance)
                               \/ abs(entries[j].distance) = abs(entries[i].distance)
                                  /\ j < i }) = k - 1]]

sortedEasyKeys(mapped) == IF mapped.err THEN mapped ELSE Ok(sortByDistance(mapped.val))

suggestEasyModeKeys(currentKey) == sortedEasyKeys(easyKeys(currentKey, BEGINNER_KEYS))

getAllKeys ==
  [i \in 1..Len(MAJOR_KEYS) |-> MAJOR_KEYS[i].name]
  \o [i \in 1..Len(MINOR_KEYS) |-> MINOR_KEYS[i].name]

-----------------------------------------------------------------------------
(* Data validation pipeline (src/src/utils/validation.ts).                 *)
(*                                                                         *)
(* An object is a record whose absent properties are absent from its       *)
(* domain; an absent string property or argument reads as Undefined.  A    *)
(* message is the sequence of the pieces of its template literal, numbers  *)
(* in decimal.  A similarity is the exact fraction num / den; for the      *)
(* lengths explored here the floating-point comparison with 0.9 and the    *)
(* rounding of the percentage agree with the exact ones.                   *)

MIN_LYRICS_LENGTH == 100
MIN_SECTIONS == 2
\* TITLE_SIMILARITY_THRESHOLD = 0.9
TITLE_SIMILARITY_THRESHOLD == [num |-> 9, den |-> 10]
MAX_RETRIES == 2

Undefined == <<"undefined">>

has(obj, key) == key \in DOMAIN obj
\* obj?.key
get(obj, key) == IF key \in DOMAIN obj THEN obj[key] ELSE Undefined

blankWithoutTrim(s) == s = Undefined \/ s = <<>>

\* !s || s.trim() === ''
blank(s) == s = Undefined \/ trim(s) = <<>>

noCriticalNoError(errors) == Len(errors) = 0

noCriticalFirstOnly(errors) == Len(errors) = 0 \/ errors[1].severity # "critical"

\* errors.filter(e => e.severity === 'critical').length === 0
noCritical(errors) ==
  Cardinality({ i \in 1..Len(errors) : errors[i].severity = "critical" }) = 0

critical(field, message) ==
  [field |-> field, message |-> message, severity |-> "critical"]

\* the errors one check pushes when its condition holds
pushIf(condition, error) == IF condition THEN <<error>> ELSE <<>>

min3(a, b, c) == IF a <= b /\ a <= c THEN a ELSE IF b <= c THEN b ELSE c

\* row i of the Levenshtein matrix, filled from row = matrix[i][0 .. j-1],
\* above = matrix[i-1] and c = s1[i-1]
RECURSIVE matrixRow(_, _, _, _)
matrixRow(above, c, s2, row) ==
  IF Len(row) > Len(s2) THEN row
  ELSE matrixRow(above, c, s2,
         Append(row, min3(above[Len(row) + 1] + 1,
                          row[Len(row)] + 1,
                          above[Len(row)] + (IF c = s2[Len(row)] THEN 0 ELSE 1))))

\* matrix[s1.length], the rows filled in turn from row i on
RECURSIVE matrixFrom(_, _, _, _)
matrixFrom(s1, s2, i, above) ==
  IF i > Len(s1) THEN above
  ELSE matrixFrom(s1, s2, i + 1, matrixRow(above, s1[i], s2, <<i>>))

\* const distance = matrix[s1.length][s2.length]
distance(s1, s2) ==
  matrixFrom(s1, s2, 1, [j \in 1..(Len(s2) + 1) |-> j - 1])[Len(s2) + 1]

similarityByDistanceOnly(s1, s2) ==
  [num |-> (IF Len(s1) > Len(s2) THEN Len(s1) ELSE Len(s2)) - distance(s1, s2),
   den |-> IF Len(s1) > Len(s2) THEN Len(s1) ELSE Len(s2)]

\* 0.8 for a substring, else 1 - distance / maxLength
similarityOfLowered(s1, s2) ==
  IF includes(s1, s2) \/ includes(s2, s1)
  THEN [num |-> 4, den |-> 5]
  ELSE [num |-> (IF Len(s1) > Len(s2) THEN Len(s1) ELSE Len(s2)) - distance(s1, s2),
        den |-> IF Len(s1) > Len(s2) THEN Len(s1) ELSE Len(s2)]

calculateStringSimilarity(str1, str2) ==
  IF str1 = str2 THEN [num |-> 1, den |-> 1]
  ELSE IF Len(str1) = 0 \/ Len(str2) = 0 THEN [num |-> 0, den |-> 1]
  ELSE similarityOfLowered(toLowerCase(str1), toLowerCase(str2))

\* the warning of the title comparison for a computed similarity; the
\* percentage is Math.round(similarity * 100)
titleMismatch(title, expectedTitle, similarity) ==
  pushIf(similarity.num * TITLE_SIMILARITY_THRESHOLD.den
           < TITLE_SIMILARITY_THRESHOLD.num * similarity.den,
         [field   |-> "title",
          message |-> <<"Title mismatch: \"">> \o title \o <<"\" vs \"">>
                      \o expectedTitle
                      \o <<"\" (", ToString((200 * similarity.num + similarity.den) \div (2 * similarity.den)), "% similar)">>])

\* if (expectedTitle && metadata.title) { ... }
titleWarnings(title, expectedTitle) ==
  IF expectedTitle \in {Undefined, <<>>} \/ title \in {Undefined, <<>>}
  THEN <<>>
  ELSE titleMismatch(title, expectedTitle,
         calculateStringSimilarity(toLowerCase(title), toLowerCase(expectedTitle)))

\* new URL(url).protocol without its colon, <<>> when the input has no
\* scheme: a letter, then letters, digits, "+", "-" or ".", then ":"
schemeOf(url) ==
  IF \E i \in 2..Len(url) :
       /\ url[i] = ":"
       /\ url[1] \in range(LOWER) \cup range(UPPER)
       /\ \A k \in 2..(i - 1) :
            url[k] \in range(LOWER) \cup range(UPPER) \cup Digits \cup {"+", "-", "."}
  THEN toLowerCase(SubSeq(url, 1, indexOf(url, ":")))
  ELSE <<>>

\* the host of an http(s) URL: what follows the scheme's colon, its leading
\* slashes skipped, up to the next slash
RECURSIVE hostOf(_, _)
hostOf(rest, started) ==
  IF rest = <<>> THEN <<>>
  ELSE IF Head(rest) \in {"/", "\\"}
       THEN (IF started THEN <<>> ELSE hostOf(Tail(rest), FALSE))
       ELSE <<Head(rest)>> \o hostOf(Tail(rest), TRUE)

\* the parse succeeds with protocol http: or https: : such a URL needs a
\* host free of the code points forbidden in hosts (the inputs have no port
\* and no credentials)
parsesAsHttp(scheme, host) ==
  /\ scheme \in {<<"h","t","t","p">>, <<"h","t","t","p","s">>}
  /\ host # <<>>
  /\ \A i \in 1..Len(host) :
       host[i] \notin {" ", "#", "%", "<", ">", "?", "@", "[", "]", "^", "|", ":"}

\* the URL parser strips leading and trailing spaces before parsing
isValidUrl(url) ==
  parsesAsHttp(schemeOf(trim(url)),
               hostOf(slice(trim(url), indexOf(trim(url), ":") + 1), FALSE))

Result(errors, warnings) ==
  [valid |-> noCritical(errors), errors |-> errors, warnings |-> warnings]

validateMetadata(metadata, expectedTitle) ==
  Result(
    pushIf(~has(metadata, "id") \/ metadata.id = 0,
           critical("id", <<"Song ID is missing">>))
    \o pushIf(blank(get(metadata, "title")),
              critical("title", <<"Song title is missing or empty">>))
    \o pushIf(blank(get(metadata, "artist")),
              critical("artist", <<"Artist name is missing or empty">>))
    \o pushIf(get(metadata, "url") \notin {Undefined, <<>>}
                /\ ~isValidUrl(get(metadata, "url")),
              [field |-> "url", message |-> <<"Invalid song URL">>, severity |-> "major"]),
    titleWarnings(get(metadata, "title"), expectedTitle))

\* the positions after the word w read at a position of P
afterWord(s, P, w) == { p + Len(w) : p \in { x \in P : startsAt(s, x, w) } }

\* the positions after \s+ read at a position of P
afterWhiteSpace(s, P) ==
  { e \in 2..(Len(s) + 1) :
      \E p \in P : p < e /\ \A k \in p..(e - 1) : s[k] \in WhiteSpace }

\* P, and the positions after the optional word w
afterOptional(s, P, w) == P \cup afterWord(s, P, w)

\* truncatedIndicators tested on the lower-cased lyrics (all four have the
\* i flag): /See\s+https?:\/\//, /Full\s+lyrics\s+at/, / Lyrics$/,
\* /Translations/
truncatedIndicators(lower) ==
  << afterWord(lower,
       afterOptional(lower,
         afterWord(lower,
           afterWhiteSpace(lower, afterWord(lower, 1..Len(lower), <<"s","e","e">>)),
           <<"h","t","t","p">>),
         <<"s">>),
       <<":","/","/">>) # {},
     afterWord(lower,
       afterWhiteSpace(lower,
         afterWord(lower,
           afterWhiteSpace(lower, afterWord(lower, 1..Len(lower), <<"f","u","l","l">>)),
           <<"l","y","r","i","c","s">>)),
       <<"a","t">>) # {},
     endsWith(lower, <<" ","l","y","r","i","c","s">>),
     includes(lower, <<"t","r","a","n","s","l","a","t","i","o","n","s">>) >>

\* one warning for every indicator found
truncationWarnings(found) ==
  [i \in 1..Cardinality({ k \in 1..Len(found) : found[k] }) |->
     [field |-> "lyrics", message |-> <<"Possible truncated lyrics detected">>]]

\* the type of the first of sectionPatterns that matches the lower-cased
\* line, "" if none does; each pattern is "^", a word and optional parts
sectionTypeOf(lower) ==
  IF startsAt(lower, 1, <<"i","n","t","r","o">>) THEN "intro"
  ELSE IF startsAt(lower, 1, <<"v","e","r","s","e">>) THEN "verse"
  ELSE IF startsAt(lower, 1, <<"p","r","e","-","c","h","o","r","u","s">>) THEN "pre-chorus"
  ELSE IF startsAt(lower, 1, <<"c","h","o","r","u","s">>) THEN "chorus"
  ELSE IF startsAt(lower, 1, <<"b","r","i","d","g","e">>) THEN "bridge"
  ELSE IF startsAt(lower, 1, <<"o","u","t","r","o">>) THEN "outro"
  ELSE ""

\* if (currentSection.content.trim()) sections.push(currentSection)
saved(sections, currentSection) ==
  IF trim(currentSection.content) # <<>> THEN Append(sections, currentSection)
  ELSE sections

\* the body of the loop over the lines for one line, then the lines after it
RECURSIVE scanLines(_, _, _)
scanLine(line, type, rest, sections, currentSection) ==
  IF type # ""
  THEN scanLines(rest, saved(sections, currentSection),
                 [type |-> type, content |-> <<>>, isChorus |-> type = "chorus"])
  ELSE IF trim(line) # <<>>
  THEN scanLines(rest, sections,
                 [currentSection EXCEPT
                    !.content = (IF @ = <<>> THEN <<>> ELSE @ \o <<"\n">>) \o line])
  ELSE scanLines(rest, sections, currentSection)

scanLines(lines, sections, currentSection) ==
  IF lines = <<>> THEN saved(sections, currentSection)
  ELSE scanLine(Head(lines), sectionTypeOf(toLowerCase(Head(lines))), Tail(lines),
                sections, currentSection)

parseSections(lyrics) ==
  scanLines(split(lyrics), <<>>, [type |-> "other", content |-> <<>>])

tooShortAtFloor(n) ==
  pushIf(n <= MIN_LYRICS_LENGTH,
         critical("lyrics",
           <<"Lyrics too short (", ToString(n), " chars, minimum ",
             ToString(MIN_LYRICS_LENGTH), ")">>))

\* the error of the minimum length
tooShort(n) ==
  pushIf(n < MIN_LYRICS_LENGTH,
         critical("lyrics",
           <<"Lyrics too short (", ToString(n), " chars, minimum ",
             ToString(MIN_LYRICS_LENGTH), ")">>))

\* the warning of the section count
sectionCountWarning(n) ==
  pushIf(n < MIN_SECTIONS,
         [field   |-> "lyrics",
          message |-> <<"Only ", ToString(n), " section(s) detected, expected at least ",
                        ToString(MIN_SECTIONS)>>])

validateLyrics(lyrics) ==
  IF blank(lyrics)
  THEN [valid    |-> FALSE,
        errors   |-> <<critical("lyrics", <<"Lyrics are empty">>)>>,
        warnings |-> <<>>]
  ELSE [valid    |-> Len(tooShort(Len(lyrics))) = 0,
        errors   |-> tooShort(Len(lyrics)),
        warnings |-> truncationWarnings(truncatedIndicators(toLowerCase(lyrics)))
                     \o sectionCountWarning(Len(parseSections(lyrics)))]

\* the positions after [A-G][#b]? read at a position of P, letter case
\* ignored
afterNoteAnyCase(lower, P) ==
  { p + 1 : p \in { x \in P : at(lower, x) \in {"a","b","c","d","e","f","g"} } }
  \cup { p + 2 : p \in { x \in P : /\ at(lower, x) \in {"a","b","c","d","e","f","g"}
                                   /\ at(lower, x + 1) \in {"#", "b"} } }

\* the positions after the optional quality group read at a position of P;
\* its alternatives are those of the lyric patterns
afterQualityAnyCase(lower, P) ==
  P \cup UNION { afterWord(lower, P, a) : a \in qualityAlternatives }

\* the positions after the optional group (\/[A-G][#b]?)? read at a
\* position of P
afterBassAnyCase(lower, P) ==
  P \cup afterNoteAnyCase(lower, afterWord(lower, P, <<"/">>))

\* the pattern, anchored at both ends, matches the lower-cased chord
chordPatternTest(lower) ==
  (Len(lower) + 1) \in
    afterBassAnyCase(lower, afterQualityAnyCase(lower, afterNoteAnyCase(lower, {1})))

\* chordPattern.test(chord), the pattern having the i flag
isValidChord(chord) == chordPatternTest(toLowerCase(chord))

\* song.detectedChords.filter(c => !isValidChord(c))
RECURSIVE invalidChordsOf(_)
invalidChordsOf(chords) ==
  IF chords = <<>> THEN <<>>
  ELSE (IF isValidChord(Head(chords)) THEN <<>> ELSE <<Head(chords)>>)
       \o invalidChordsOf(Tail(chords))

\* invalidChords.join(', ')
RECURSIVE joinChords(_)
joinChords(chords) ==
  IF chords = <<>> THEN <<>>
  ELSE IF Len(chords) = 1 THEN Head(chords)
  ELSE Head(chords) \o <<",", " ">> \o joinChords(Tail(chords))

parsedSongResultSeveralEmpty(metadataResult, sections, emptySections, invalidChords) ==
  Result(
    metadataResult.errors
    \o pushIf(Len(sections) = 0, critical("sections", <<"No song sections found">>)),
    metadataResult.warnings
    \o pushIf(emptySections > 1,
              [field   |-> "sections",
               message |-> <<ToString(emptySections), " empty section(s) found">>])
    \o pushIf(Len(invalidChords) > 0,
              [field   |-> "chords",
               message |-> <<ToString(Len(invalidChords)), " invalid chord(s) detected: ">>
                           \o joinChords(invalidChords)]))

\* what validateParsedSong adds to the metadata result
parsedSongResult(metadataResult, sections, emptySections, invalidChords) ==
  Result(
    metadataResult.errors
    \o pushIf(Len(sections) = 0, critical("sections", <<"No song sections found">>)),
    metadataResult.warnings
    \o pushIf(emptySections > 0,
              [field   |-> "sections",
               message |-> <<ToString(emptySections), " empty section(s) found">>])
    \o pushIf(Len(invalidChords) > 0,
              [field   |-> "chords",
               message |-> <<ToString(Len(invalidChords)), " invalid chord(s) detected: ">>
                           \o joinChords(invalidChords)]))

validateParsedSong(song) ==
  parsedSongResult(
    validateMetadata(song.metadata, Undefined),
    song.sections,
    Cardinality({ i \in 1..Len(song.sections) : blank(get(song.sections[i], "content")) }),
    invalidChordsOf(song.detectedChords))

songResultWithoutLyricsWarnings(metadataResult, lyricsResult, retryCount) ==
  IF ~metadataResult.valid /\ retryCount >= MAX_RETRIES THEN metadataResult
  ELSE IF ~lyricsResult.valid /\ retryCount >= MAX_RETRIES THEN lyricsResult
  ELSE Result(metadataResult.errors \o lyricsResult.errors, metadataResult.warnings)

songResultAfterBudget(metadataResult, lyricsResult, retryCount) ==
  IF ~metadataResult.valid /\ retryCount > MAX_RETRIES THEN metadataResult
  ELSE IF ~lyricsResult.valid /\ retryCount > MAX_RETRIES THEN lyricsResult
  ELSE Result(metadataResult.errors \o lyricsResult.errors,
              metadataResult.warnings \o lyricsResult.warnings)

songResultFirstAtBudget(metadataResult, lyricsResult, retryCount) ==
  IF retryCount >= MAX_RETRIES THEN metadataResult
  ELSE Result(metadataResult.errors \o lyricsResult.errors,
              metadataResult.warnings \o lyricsResult.warnings)

\* validateSong once both checks are computed
songResult(metadataResult, lyricsResult, retryCount) ==
  IF ~metadataResult.valid /\ retryCount >= MAX_RETRIES THEN metadataResult
  ELSE IF ~lyricsResult.valid /\ retryCount >= MAX_RETRIES THEN lyricsResult
  ELSE Result(metadataResult.errors \o lyricsResult.errors,
              metadataResult.warnings \o lyricsResult.warnings)

\* options is a record with the properties given, the empty record when
\* the argument is omitted; the value is the one the promise resolves to
validateSong(metadata, lyrics, options) ==
  songResult(validateMetadata(metadata, get(options, "expectedTitle")),
             validateLyrics(lyrics),
             IF has(options, "retryCount") THEN options.retryCount ELSE 0)

-----------------------------------------------------------------------------
(* Chord recognition and relative keys (transpose.ts).                     *)

\* chordPatterns.some(pattern => pattern.test(trimmed)) on the lower-cased
\* trimmed text, both patterns having the i flag.  The first pattern is
\* /^[A-G][#b]?(m|maj|dim|aug|sus|add| maj7| m7| 7| maj9| m9| 9| 11| 13)?$/,
\* whose last eight alternatives begin with a space.  The second is
\* /^[A-G][#b]?\/(A-G][#b]?)?$/, whose group reads the four characters
\* "A-G]" and then an optional # or b.
chordPatternsSome(lower) ==
  \/ (Len(lower) + 1) \in
       afterNoteAnyCase(lower, {1})
       \cup UNION { afterWord(lower, afterNoteAnyCase(lower, {1}), a) :
                      a \in { <<"m">>, <<"m","a","j">>, <<"d","i","m">>,
                              <<"a","u","g">>, <<"s","u","s">>, <<"a","d","d">>,
                              <<" ","m","a","j","7">>, <<" ","m","7">>, <<" ","7">>,
                              <<" ","m","a","j","9">>, <<" ","m","9">>, <<" ","9">>,
                              <<" ","1","1">>, <<" ","1","3">> } }
  \/ (Len(lower) + 1) \in
       afterWord(lower, afterNoteAnyCase(lower, {1}), <<"/">>)
       \cup afterWord(lower, afterNoteAnyCase(lower, {1}), <<"/","a","-","g","]">>)
       \cup afterWord(lower, afterNoteAnyCase(lower, {1}), <<"/","a","-","g","]","#">>)
       \cup afterWord(lower, afterNoteAnyCase(lower, {1}), <<"/","a","-","g","]","b">>)

isChord(text) == chordPatternsSome(toLowerCase(trim(text)))

\* MAJOR_KEYS.find(k => k.name === majorKey), then the note nine semitones
\* above it in NOTES; a name that is not in the table gets an "m" appended
getRelativeMinor(majorKey) ==
  IF \E i \in 1..Len(MAJOR_KEYS) : MAJOR_KEYS[i].name = majorKey
  THEN NOTES[((MAJOR_KEYS[CHOOSE i \in 1..Len(MAJOR_KEYS) :
                            MAJOR_KEYS[i].name = majorKey].index + 9) % 12) + 1]
       \o <<"m">>
  ELSE majorKey \o <<"m">>

\* MINOR_KEYS.find(k => k.name === minorKey), then the note three semitones
\* above it in NOTES; a name that is not in the table loses its first "m"
getRelativeMajor(minorKey) ==
  IF \E i \in 1..Len(MINOR_KEYS) : MINOR_KEYS[i].name = minorKey
  THEN NOTES[((MINOR_KEYS[CHOOSE i \in 1..Len(MINOR_KEYS) :
                            MINOR_KEYS[i].name = minorKey].index + 3) % 12) + 1]
  ELSE removeFirst(minorKey, <<"m">>)

-----------------------------------------------------------------------------
(* Inputs of the explored calls.                                           *)

\* the sequences in seqs joined end to end
RECURSIVE concat(_)
concat(seqs) == IF seqs = <<>> THEN <<>> ELSE Head(seqs) \o concat(Tail(seqs))

\* every sequence of at most n elements of S
seqsUpTo(S, n) == UNION { [1..k -> S] : k \in 0..n }

\* the note spellings of the sharp and of the flat table
NoteSpellings == range(SHARP_NOTES) \cup range(FLAT_NOTES)

\* the quality suffixes the engine documents
Qualities ==
  { <<>>, <<"m">>, <<"m","a","j">>, <<"d","i","m">>, <<"a","u","g">>,
    <<"s","u","s">>, <<"a","d","d">>, <<"7">>, <<"m","a","j","7">>,
    <<"m","7">>, <<"9">>, <<"1","1">>, <<"1","3">> }

\* the qualities and basses of the chords handed to transposeChord
InputQualities ==
  { <<>>, <<"m">>, <<"7">>, <<"m","a","j","7">>, <<"s","u","s">>, <<"1","3">> }
BassNotes == { <<"E">>, <<"B","b">> }

\* root + quality + optional slash-bass
ValidChords ==
  { r \o q \o b : r \in NoteSpellings, q \in InputQualities,
                  b \in {<<>>} \cup { <<"/">> \o n : n \in BassNotes } }

ChordChars == {"A", "E", "b", "#", "/", " "}
NoteChars  == {"C", "c", "E", "B", "b", "#", "m", " ", "/"}

ChordInputs ==
  ValidChords \cup seqsUpTo(ChordChars, MaxChordLen)
  \cup { <<" ","A","m"," ">>, <<"a","m">>, <<"H","7">>, <<"B","b","m","7">>, <<" "," "," ">> }
NoteInputs == NoteSpellings \cup seqsUpTo(NoteChars, MaxChordLen)

ListChords ==
  { <<"C">>, <<"A","m">>, <<"G">>, <<"C","#","m">>, <<"F","#","m">>,
    <<"G","#","m">>, <<"B","b">>, <<"C","m","a","j","7">>, <<"N","C">> }

\* the progression C Am F G repeated up to n chords
Progression == << <<"C">>, <<"A","m">>, <<"F">>, <<"G">> >>
progressionOf(n) == [i \in 1..n |-> Progression[((i - 1) % 4) + 1]]

\* the chord lists handed to detectKey: short lists of every content, and
\* progressions on both sides of the 5 and of the 10 chord mark
ChordListInputs ==
  seqsUpTo(ListChords, MaxChords)
  \cup { progressionOf(n) : n \in {5, 6, 8, 10, 11} }

\* the chord lists handed to transposeChords
TransposedListInputs ==
  seqsUpTo({ <<"C">>, <<"A","m">>, <<"B","b">>, <<" ">> }, MaxChords)

LyricTokens ==
  { <<"[","A","m","]">>, <<"[","G","]">>, <<"[","A","m","7","]">>,
    <<"[","B","b","]">>, <<"[","C","/","E","]">>,
    <<"[","C","h","o","r","u","s","]">>, <<"l","a">>, <<" ">>, <<"\n">> }

LyricInputs ==
  { concat(t) : t \in seqsUpTo(LyricTokens, MaxTokens) }
  \cup { <<"[","A","m","]"," ","[","G","]"," ","[","F","]","\n">>,
         <<"[","E","b","/","G","]">>,
         <<"L","o","v","e"," ","[","A","m","]","m","e"," ","[","G","]",
           "t","e","n","d","e","r">> }

\* the shifts tried on lyric texts: both ends of the range, zero, and
\* shifts that wrap below 0 and above 11
LyricShifts == {0 - MaxShift, -3, 0, 2, MaxShift - 1}

KeyInputs == range(getAllKeys)

\* texts handed to isChord: a root, a documented quality and an optional
\* slash-bass, and texts around them (padded, lower-case, with a space
\* before the quality, with a bare slash, with the text "A-G]" after it)
ChordLikeInputs ==
  { r \o qual \o b : r \in { <<"C">>, <<"A">>, <<"B","b">>, <<"F","#">> },
                     qual \in Qualities,
                     b \in { <<>>, <<"/","E">>, <<"/","G">>, <<"/","B","b">> } }
  \cup { <<" ","A","m"," ">>, <<"C"," ","m","7">>, <<"C"," ","7">>, <<"C"," ","m","9">>, <<"C","m","9">>, <<"C","/">>, <<"C","/","A","-","G","]">>,
         <<"c","/","a","-","g","]","#">>, <<"a","m">>, <<"H">>, <<"C","/","e">>, <<>> }

\* texts handed to parseChord: those of transposeChord, chords with
\* several slashes, and texts with a line terminator inside
ParsedChordInputs ==
  ChordInputs
  \cup { <<"C","/","E","/","G">>, <<"C","/","E","b","b">>, <<"A","m","7","/","G">>, <<" ","G","/","B"," ">>,
         <<"A","\n","m">>, <<"C","\n","/","E">>, <<"A","\r","m">>, <<"D","s","u","s","4","/","F","#">> }

\* names handed to getRelativeMinor and getRelativeMajor: the keys of both
\* tables and names of neither
RelativeKeyInputs == KeyInputs \cup { <<"C","#">>, <<"D","b","m">>, <<"X">> }

\* ---- inputs of the validation pipeline ----

\* an object with the property key, or without it when the value is absent
\* (Undefined for a string; a number is given as <<n>>, an absent one as <<>>)
EmptyObject == [k \in {} |-> k]
numberProperty(key, value) ==
  IF Len(value) = 0 THEN EmptyObject ELSE key :> value[1]
stringProperty(key, value) ==
  IF value = Undefined THEN EmptyObject ELSE key :> value

SongMetadata(id, title, artist, url) ==
  numberProperty("id", id) @@ stringProperty("title", title)
  @@ stringProperty("artist", artist) @@ stringProperty("url", url)

HeyJude == <<"H","e","y"," ","J","u","d","e">>
Help == <<"H","e","l","p">>
ArtistX == <<"X">>
GoodUrl == <<"h","t","t","p","s",":","/","/","a",".","b","/","c">>

UrlInputs ==
  { Undefined, <<>>, <<"n","o","t"," ","a"," ","u","r","l">>, <<"h","t","t","p",":","/","/","a",".","b">>, GoodUrl,
    <<"f","t","p",":","/","/","a",".","b">>, <<"h","t","t","p",":","/","/">>, <<"a",".","b">> }

\* every combination of absent, blank and present required fields
MetadataFieldInputs ==
  { SongMetadata(id, title, artist, url) :
      id \in {<<>>, <<0>>, <<7>>},
      title \in {Undefined, <<>>, <<" ", " ">>, HeyJude},
      artist \in {Undefined, <<>>, <<" ">>, ArtistX},
      url \in UrlInputs }

\* pairs of an actual and an expected title: every pair of short titles, and
\* pairs that are equal up to case, contain one another, or differ by one
\* character in 8, 10 and 14
TitlePairs ==
  (seqsUpTo({"a", "A", "b"}, MaxTitleLen) \X seqsUpTo({"a", "A", "b"}, MaxTitleLen))
  \cup { <<HeyJude, <<"h","e","y"," ","j","u","d","e">>>>,
         <<<<"H","e","y"," ","J","u","d","e"," ","(","L","i","v","e",")">>, HeyJude>>,
         <<HeyJude, <<"H","e","y"," ","J","u","d","e"," ","(","L","i","v","e",")">>>>,
         <<HeyJude, <<"H","e","y"," ","J","u","d","y">>>>,
         <<<<"Y","e","s","t","e","r","d","a","y","s">>, <<"y","e","s","t","e","r","d","a","y","z">>>>,
         <<<<"N","o","r","w","e","g","i","a","n"," ","W","o","o","d">>, <<"N","o","r","w","e","g","i","a","n"," ","W","o","o","l">>>>,
         <<<<"N","o","r","w","e","g","i","a","n"," ","W","o","o","d","s">>, <<"N","o","r","w","e","g","i","a","n"," ","W","o","o","d">>>>,
         <<HeyJude, Help>>, <<<<" ">>, HeyJude>>,
         <<HeyJude, Undefined>>, <<Undefined, HeyJude>> }

MetadataCalls ==
  [metadata : MetadataFieldInputs, expectedTitle : {Undefined, HeyJude, Help}]
  \cup { [metadata |-> SongMetadata(<<7>>, p[1], ArtistX, GoodUrl), expectedTitle |-> p[2]] :
           p \in TitlePairs }

\* n characters of lyric text in lines of 10
filler(n) == [i \in 1..n |-> IF i % 10 = 0 THEN "\n" ELSE "a"]

\* blank texts, texts on both sides of the 100 character floor, texts with
\* truncation indicators and texts with section headers
ValidatedLyrics ==
  { Undefined, <<>>, <<" ", "\n", " ">>, [i \in 1..MIN_LYRICS_LENGTH |-> " "],
    <<"l","a"," ","l","a">>, <<"H","e","y"," ","J","u","d","e"," ","L","y","r","i","c","s">>,
    filler(MIN_LYRICS_LENGTH - 1), filler(MIN_LYRICS_LENGTH), <<"b">> \o filler(MIN_LYRICS_LENGTH),
    filler(MIN_LYRICS_LENGTH) \o <<"S","e","e"," "," ","H","T","T","P","S",":","/","/","a",".","b">>,
    filler(MIN_LYRICS_LENGTH) \o <<"f","u","l","l"," ","l","y","r","i","c","s"," ","a","t"," ","T","r","a","n","s","l","a","t","i","o","n","s"," ","L","y","r","i","c","s">>,
    <<"V","e","r","s","e"," ","1",":","\n">> \o filler(60) \o <<"\n","C","H","O","R","U","S","\n">> \o filler(60),
    <<"I","n","t","r","o","\n","b","r","i","d","g","e",":"," ","x","\n">> \o filler(MIN_LYRICS_LENGTH)
      \o <<"\n","O","u","t","r","o">>,
    filler(MIN_LYRICS_LENGTH) \o <<"\n","B","r","i","d","g","e"," ","o","v","e","r"," ","w","a","t","e","r","\n">> \o filler(20) }

SongMetadataInputs ==
  { SongMetadata(<<7>>, HeyJude, ArtistX, GoodUrl),
    SongMetadata(<<0>>, HeyJude, ArtistX, GoodUrl),
    SongMetadata(<<7>>, <<" ">>, Undefined, GoodUrl),
    SongMetadata(<<7>>, HeyJude, ArtistX, <<"n","o","t"," ","a"," ","u","r","l">>) }

\* the options argument: omitted, or with any of its two properties
OptionsInputs ==
  { stringProperty("expectedTitle", e) @@ numberProperty("retryCount", r) :
      e \in {Undefined, Help},
      r \in {<<>>} \cup { <<n>> : n \in 0..(MAX_RETRIES + 1) } }

SectionInputs ==
  { [type |-> "verse", content |-> <<"l","a"," ","l","a">>],
    [type |-> "chorus", content |-> <<" ", "\n">>, isChorus |-> TRUE],
    [type |-> "other"] }

DetectedChordInputs == { <<"A","m">>, <<"A","m","7">>, <<"H">>, <<"C","/","E">> }

ParsedSongInputs ==
  [metadata : SongMetadataInputs,
   sections : seqsUpTo(SectionInputs, MaxSections),
   detectedChords : seqsUpTo(DetectedChordInputs, MaxSections)]

\* ---- inputs of the hooks ----

\* the options of useTranspose: none, or an originalKey.  The hook renders
\* suggestEasyModeKeys(originalKey || 'C'), so it mounts only with a key
\* for which that call returns
TransposeOptionsInputs ==
  { stringProperty("originalKey", k) :
      k \in { x \in {Undefined, <<>>, <<"C">>, <<"A","m">>, <<"F","#">>, <<"B","b">>} :
                ~suggestEasyModeKeys(IF x \in {Undefined, <<>>} THEN <<"C">> ELSE x).err } }

\* the shifts handed to setSemitones: the range and one step beyond each end
SemitoneInputs == (0 - MaxShift - 1)..(MaxShift + 1)

\* the keys handed to setTargetKey: keys of the tables, one of them spelled
\* with a flat, and a foreign name
TargetKeyInputs == { <<"G">>, <<"A","m">>, <<"F","#","m">>, <<"B","b">>, <<"X">> }

-----------------------------------------------------------------------------
(* The calls.  A call is drawn with its arguments, then runs to its return *)
(* or to its throw.                                                        *)

NoResult == [err |-> FALSE, val |-> <<>>]

Init ==
  \/ /\ pc = "mounted"
     /\ ret = NoResult
     /\ call = "useTranspose"
     /\ args \in [options : TransposeOptionsInputs]
     /\ hook = [semitones |-> 0, targetKey |-> Undefined]
  \/ /\ pc = "mounted"
     /\ ret = NoResult
     /\ call = "useAutoScroll"
     /\ args \in [maxScroll : 0..MaxScroll, reducedMotion : BOOLEAN]
     /\ hook = [isPlaying |-> FALSE, speed |-> 2, currentPosition |-> 0,
                animationFrameRef |-> FALSE, positionRef |-> 0, scrollTop |-> 0,
                animateSees |-> FALSE, pending |-> <<>>]
  \/ /\ pc = "ready"
     /\ ret = NoResult
     /\ hook = EmptyObject
     /\ \/ /\ call = "getNoteIndex"
           /\ args \in [note : NoteInputs]
        \/ /\ call = "transposeChord"
           /\ args \in [chord : ChordInputs, semitones : Shifts, useFlats : BOOLEAN]
        \/ /\ call = "transposeChords"
           /\ args \in [chords : TransposedListInputs, semitones : Shifts]
        \/ /\ call = "transposeLyrics"
           /\ args \in [lyrics : LyricInputs, semitones : LyricShifts]
        \/ /\ call = "detectKey"
           /\ args \in [chords : ChordListInputs]
        \/ /\ call = "getSemitoneDistance"
           /\ args \in [fromKey : KeyInputs, toKey : KeyInputs]
        \/ /\ call = "suggestEasyModeKeys"
           /\ args \in [currentKey : KeyInputs]
        \/ /\ call = "isChord"
           /\ args \in [text : ChordLikeInputs]
        \/ /\ call = "parseChord"
           /\ args \in [chord : ParsedChordInputs]
        \/ /\ call = "getRelativeMinor"
           /\ args \in [majorKey : RelativeKeyInputs]
        \/ /\ call = "getRelativeMajor"
           /\ args \in [minorKey : RelativeKeyInputs]
        \/ /\ call = "validateMetadata"
           /\ args \in MetadataCalls
        \/ /\ call = "validateLyrics"
           /\ args \in [lyrics : ValidatedLyrics]
        \/ /\ call = "validateParsedSong"
           /\ args \in [song : ParsedSongInputs]
        \/ /\ call = "validateSong"
           /\ args \in [metadata : SongMetadataInputs, lyrics : ValidatedLyrics,
                         options : OptionsInputs]

Return(name, result) ==
  /\ pc = "ready"
  /\ call = name
  /\ pc' = "done"
  /\ ret' = result
  /\ UNCHANGED <<call, args, hook>>

CallGetNoteIndex == Return("getNoteIndex", getNoteIndex(args.note))

CallTransposeChord ==
  Return("transposeChord", transposeChord(args.chord, args.semitones, args.useFlats))

CallTransposeChords ==
  Return("transposeChords", transposeChords(args.chords, args.semitones))

CallTransposeLyrics ==
  Return("transposeLyrics", transposeLyrics(args.lyrics, args.semitones))

CallDetectKey == Return("detectKey", detectKey(args.chords))

CallGetSemitoneDistance ==
  Return("getSemitoneDistance", getSemitoneDistance(args.fromKey, args.toKey))

CallSuggestEasyModeKeys ==
  Return("suggestEasyModeKeys", suggestEasyModeKeys(args.currentKey))

\* these four return a value and never throw
CallIsChord == Return("isChord", isChord(args.text))

CallParseChord == Return("parseChord", parseChord(args.chord))

CallGetRelativeMinor == Return("getRelativeMinor", getRelativeMinor(args.majorKey))

CallGetRelativeMajor == Return("getRelativeMajor", getRelativeMajor(args.minorKey))

CallValidateMetadata ==
  Return("validateMetadata", validateMetadata(args.metadata, args.expectedTitle))

CallValidateLyrics == Return("validateLyrics", validateLyrics(args.lyrics))

CallValidateParsedSong == Return("validateParsedSong", validateParsedSong(args.song))

CallValidateSong ==
  Return("validateSong", validateSong(args.metadata, args.lyrics, args.options))

-----------------------------------------------------------------------------
(* useTranspose.  The state is {semitones, targetKey}; originalKey is an   *)
(* option.                                                                 *)

incrementSemitonesUnclamped ==
  /\ pc = "mounted" /\ call = "useTranspose"
  /\ hook.semitones < 2 * MaxShift
  /\ hook' = [hook EXCEPT !.semitones = @ + 1]
  /\ ret' = NoResult
  /\ UNCHANGED <<pc, call, args>>

\* clamped = Math.max(-12, Math.min(12, newSemitones)) is stored; then, with
\* an originalKey, transposeKey(originalKey, clamped) is called with the
\* number as toKey: getSemitoneDistance looks fromKey up and then calls
\* toKey.replace, which a number does not have, so the callback throws
\* before setTargetKey
setSemitones ==
  /\ pc = "mounted" /\ call = "useTranspose"
  /\ \E newSemitones \in SemitoneInputs :
       hook' = [hook EXCEPT !.semitones =
                  IF newSemitones > MaxShift THEN MaxShift
                  ELSE IF newSemitones < 0 - MaxShift THEN 0 - MaxShift
                  ELSE newSemitones]
  /\ ret' = IF get(args.options, "originalKey") \in {Undefined, <<>>} THEN NoResult
            ELSE IF getNoteIndex(removeFirst(args.options.originalKey, <<"m">>)).err
            THEN getNoteIndex(removeFirst(args.options.originalKey, <<"m">>))
            ELSE [err |-> TRUE, val |-> <<"TypeError: toKey.replace is not a function">>]
  /\ UNCHANGED <<pc, call, args>>

\* setSemitonesState(prev => Math.min(12, prev + 1))
incrementSemitones ==
  /\ pc = "mounted" /\ call = "useTranspose"
  /\ hook' = [hook EXCEPT !.semitones = IF @ + 1 > MaxShift THEN MaxShift ELSE @ + 1]
  /\ ret' = NoResult
  /\ UNCHANGED <<pc, call, args>>

\* setSemitonesState(prev => Math.max(-12, prev - 1))
decrementSemitones ==
  /\ pc = "mounted" /\ call = "useTranspose"
  /\ hook' = [hook EXCEPT !.semitones = IF @ - 1 < 0 - MaxShift THEN 0 - MaxShift ELSE @ - 1]
  /\ ret' = NoResult
  /\ UNCHANGED <<pc, call, args>>

\* with an originalKey the shift is transposeKey(originalKey, key), which
\* throws for a name getNoteIndex does not know; then targetKey is key
setTargetKeyCallback ==
  /\ pc = "mounted" /\ call = "useTranspose"
  /\ \E key \in TargetKeyInputs :
       IF get(args.options, "originalKey") \in {Undefined, <<>>}
       THEN /\ hook' = [hook EXCEPT !.targetKey = key]
            /\ ret' = NoResult
       ELSE IF transposeKey(args.options.originalKey, key).err
       THEN /\ hook' = hook
            /\ ret' = transposeKey(args.options.originalKey, key)
       ELSE /\ hook' = [semitones |-> transposeKey(args.options.originalKey, key).val,
                        targetKey |-> key]
            /\ ret' = NoResult
  /\ UNCHANGED <<pc, call, args>>

\* setSemitonesState(0); setTargetKey(undefined)
reset ==
  /\ pc = "mounted" /\ call = "useTranspose"
  /\ hook' = [semitones |-> 0, targetKey |-> Undefined]
  /\ ret' = NoResult
  /\ UNCHANGED <<pc, call, args>>

-----------------------------------------------------------------------------
(* useAutoScroll.  Positions are in half pixels and speeds in halves       *)
(* (speed 2 is 1x, the default), so that Math.max(0.5, ...) and the clamp  *)
(* of the speed to 0.5 .. 3.0 are computed on integers.  maxScroll is the  *)
(* container's scrollHeight - clientHeight and reducedMotion the answer of *)
(* matchMedia('(prefers-reduced-motion: reduce)').  animationFrameRef is   *)
(* TRUE when the ref holds a frame id; pending is the frame the browser    *)
(* will run, with the speed and the pause the scheduled animate closes     *)
(* over.  animate is re-created only when state.speed changes, so the      *)
(* pause it calls is the one of that render: animateSees is the isPlaying  *)
(* that pause reads.  The time between two frames is drawn per frame, in   *)
(* frames of 16.67 ms, instead of being kept in lastTimeRef.               *)

\* pause() of a render in which state.isPlaying was sees
paused(h, sees) ==
  IF ~sees THEN h
  ELSE [h EXCEPT !.pending = IF h.animationFrameRef THEN <<>> ELSE @,
                 !.animationFrameRef = FALSE,
                 !.isPlaying = FALSE]

\* Math.max(0.5, baseSpeed * (deltaTime / 16.67)), deltaTime being frames
\* frames long
calculateScrollAmount(frames, baseSpeed) ==
  IF baseSpeed * frames < 1 THEN 1 ELSE baseSpeed * frames

\* one animation frame: the scheduled animate runs with the time of the
\* frame.  At the end it stores maxScroll, calls its pause and onComplete
\* and returns; otherwise it scrolls and requests the next frame
animate ==
  /\ pc = "mounted" /\ call = "useAutoScroll"
  /\ hook.pending # <<>>
  /\ IF args.reducedMotion
     THEN /\ hook' = paused([hook EXCEPT !.pending = <<>>], hook.pending[1].sees)
          /\ ret' = NoResult
     ELSE \E frames \in 0..2 :
            IF hook.positionRef + calculateScrollAmount(frames, hook.pending[1].speed)
                 >= args.maxScroll
            THEN /\ hook' = paused([hook EXCEPT !.pending = <<>>,
                                                !.positionRef = args.maxScroll,
                                                !.currentPosition = args.maxScroll],
                                   hook.pending[1].sees)
                 /\ ret' = Ok(<<"onComplete">>)
            ELSE /\ hook' = [hook EXCEPT
                               !.positionRef = @ + calculateScrollAmount(frames, hook.pending[1].speed),
                               !.scrollTop = hook.positionRef
                                 + calculateScrollAmount(frames, hook.pending[1].speed),
                               !.currentPosition = hook.positionRef
                                 + calculateScrollAmount(frames, hook.pending[1].speed),
                               !.animationFrameRef = TRUE]
                 /\ ret' = NoResult
  /\ UNCHANGED <<pc, call, args>>

\* start of the current render: it requests a frame for the animate of
\* that render
start ==
  /\ pc = "mounted" /\ call = "useAutoScroll"
  /\ hook' = IF hook.isPlaying THEN hook
             ELSE [hook EXCEPT !.positionRef = hook.scrollTop,
                               !.isPlaying = TRUE,
                               !.animationFrameRef = TRUE,
                               !.pending = << [speed |-> hook.speed,
                                               sees  |-> hook.animateSees] >>]
  /\ ret' = NoResult
  /\ UNCHANGED <<pc, call, args>>

\* pause of the current render
pause ==
  /\ pc = "mounted" /\ call = "useAutoScroll"
  /\ hook' = paused(hook, hook.isPlaying)
  /\ ret' = NoResult
  /\ UNCHANGED <<pc, call, args>>

\* if (state.isPlaying) pause() else start()
toggle ==
  /\ pc = "mounted" /\ call = "useAutoScroll"
  /\ IF hook.isPlaying THEN pause ELSE start

\* the speed is clamped to 0.5 .. 3.0; the render that follows re-creates
\* animate when state.speed changed
setSpeed ==
  /\ pc = "mounted" /\ call = "useAutoScroll"
  /\ \E speed \in {0, 2, 7} :
       hook' = [hook EXCEPT
                  !.speed = IF speed > 6 THEN 6 ELSE IF speed < 1 THEN 1 ELSE speed,
                  !.animateSees =
                    IF hook.speed = (IF speed > 6 THEN 6 ELSE IF speed < 1 THEN 1 ELSE speed)
                    THEN @ ELSE hook.isPlaying]
  /\ ret' = NoResult
  /\ UNCHANGED <<pc, call, args>>

\* reset: pause(), then scroll to the top
resetScroll ==
  /\ pc = "mounted" /\ call = "useAutoScroll"
  /\ hook' = [paused(hook, hook.isPlaying) EXCEPT
                !.scrollTop = 0, !.positionRef = 0, !.currentPosition = 0]
  /\ ret' = NoResult
  /\ UNCHANGED <<pc, call, args>>

\* Math.max(0, Math.min(position, maxScroll))
scrollToPosition ==
  /\ pc = "mounted" /\ call = "useAutoScroll"
  /\ \E position \in (0 - 1)..(MaxScroll + 1) :
       hook' = [hook EXCEPT
                  !.scrollTop = IF position > args.maxScroll THEN args.maxScroll
                                ELSE IF position < 0 THEN 0 ELSE position,
                  !.positionRef = IF position > args.maxScroll THEN args.maxScroll
                                  ELSE IF position < 0 THEN 0 ELSE position,
                  !.currentPosition = IF position > args.maxScroll THEN args.maxScroll
                                      ELSE IF position < 0 THEN 0 ELSE position]
  /\ ret' = NoResult
  /\ UNCHANGED <<pc, call, args>>

\* scrollToPosition(positionRef.current + amount)
scrollByAmount ==
  /\ pc = "mounted" /\ call = "useAutoScroll"
  /\ \E amount \in {0 - 2, 1} :
       hook' = [hook EXCEPT
                  !.scrollTop = IF hook.positionRef + amount > args.maxScroll
                                THEN args.maxScroll
                                ELSE IF hook.positionRef + amount < 0 THEN 0
                                ELSE hook.positionRef + amount,
                  !.positionRef = IF @ + amount > args.maxScroll THEN args.maxScroll
                                  ELSE IF @ + amount < 0 THEN 0 ELSE @ + amount,
                  !.currentPosition = IF hook.positionRef + amount > args.maxScroll
                                      THEN args.maxScroll
                                      ELSE IF hook.positionRef + amount < 0 THEN 0
                                      ELSE hook.positionRef + amount]
  /\ ret' = NoResult
  /\ UNCHANGED <<pc, call, args>>

\* a scroll event on the container: the reader has scrolled it, and the
\* listener of the current render pauses a playing scroll
handleScroll ==
  /\ pc = "mounted" /\ call = "useAutoScroll"
  /\ \E top \in 0..args.maxScroll :
       hook' = paused([hook EXCEPT !.scrollTop = top], hook.isPlaying)
  /\ ret' = NoResult
  /\ UNCHANGED <<pc, call, args>>

Next ==
  \/ start
  \/ pause
  \/ toggle
  \/ animate
  \/ setSpeed
  \/ resetScroll
  \/ scrollToPosition
  \/ scrollByAmount
  \/ handleScroll
  \/ setSemitones
  \/ incrementSemitones
  \/ decrementSemitones
  \/ setTargetKeyCallback
  \/ reset
  \/ CallGetNoteIndex
  \/ CallTransposeChord
  \/ CallTransposeChords
  \/ CallTransposeLyrics
  \/ CallDetectKey
  \/ CallGetSemitoneDistance
  \/ CallSuggestEasyModeKeys
  \/ CallIsChord
  \/ CallParseChord
  \/ CallGetRelativeMinor
  \/ CallGetRelativeMajor
  \/ CallValidateMetadata
  \/ CallValidateLyrics
  \/ CallValidateParsedSong
  \/ CallValidateSong

Spec == Init /\ [][Next]_vars

-----------------------------------------------------------------------------
(* What the properties speak of: pitch classes, spellings and chord parts  *)
(* as the note/key tables define them.                                     *)

Done(name) == pc = "done" /\ call = name

\* the pitch class of a spelling of the sharp or of the flat table
pitchClassOf(note) ==
  IF indexOf(SHARP_NOTES, note) >= 0 THEN indexOf(SHARP_NOTES, note)
  ELSE indexOf(FLAT_NOTES, note)

spell(pitchClass, preferFlats) ==
  IF preferFlats THEN FLAT_NOTES[pitchClass + 1] ELSE SHARP_NOTES[pitchClass + 1]

\* the ways to read chord as root + documented quality + optional /bass
componentsOf(chord) ==
  UNION { UNION { { [root |-> r, quality |-> q, bass |-> b] :
                      b \in { n \in {<<>>} \cup NoteSpellings :
                                chord = r \o q \o (IF n = <<>> THEN <<>> ELSE <<"/">> \o n) } }
                  : q \in { x \in Qualities : startsAt(chord, Len(r) + 1, x) } }
          : r \in { x \in NoteSpellings : startsAt(chord, 1, x) } }

isDocumentedChord(chord) == componentsOf(chord) # {}

\* the pitch class the key tables give a key name, -1 for a foreign name
keyIndexOf(name) ==
  IF \E i \in 1..Len(MAJOR_KEYS) : MAJOR_KEYS[i].name = name
  THEN MAJOR_KEYS[CHOOSE i \in 1..Len(MAJOR_KEYS) : MAJOR_KEYS[i].name = name].index
  ELSE IF \E i \in 1..Len(MINOR_KEYS) : MINOR_KEYS[i].name = name
  THEN MINOR_KEYS[CHOOSE i \in 1..Len(MINOR_KEYS) : MINOR_KEYS[i].name = name].index
  ELSE -1

-----------------------------------------------------------------------------
(* C1 .. C10                                                               *)

\* C1: a zero shift is the identity and never fails: transposeChord(c, 0)
\* returns c for every string c, transposeLyrics(t, 0) returns t for every
\* text t, and transposeChords(list, 0) returns the list unchanged.
C1_ZeroShiftIdentity ==
  /\ Done("transposeChord") /\ args.semitones = 0
       => ~ret.err /\ ret.val = args.chord
  /\ Done("transposeLyrics") /\ args.semitones = 0
       => ~ret.err /\ ret.val = args.lyrics
  /\ Done("transposeChords") /\ args.semitones = 0
       => ~ret.err /\ ret.val = args.chords

\* a flat-spelled chord has been transposed by zero semitones
C1_Witness ==
  /\ Done("transposeChord")
  /\ args.semitones = 0
  /\ args.chord = <<"B","b","m","7">>

\* C2: round trip.  For every chord c of root + quality + optional bass with
\* root and bass from the sharp or flat table, every N and either useFlats,
\* transposeChord(transposeChord(c, N, useFlats), -N) succeeds and has the
\* root pitch class, bass pitch class and quality of c.
C2_RoundTrip ==
  Done("transposeChord") =>
    \A c \in componentsOf(args.chord) :
      /\ ~ret.err
      /\ LET back == transposeChord(ret.val, 0 - args.semitones, FALSE)
         IN  /\ ~back.err
             /\ pitchClassOf(parseChord(back.val).root) = pitchClassOf(c.root)
             /\ parseChord(back.val).quality = c.quality
             /\ (c.bass = <<>>) = (parseChord(back.val).bass = <<>>)
             /\ c.bass # <<>> =>
                  pitchClassOf(parseChord(back.val).bass) = pitchClassOf(c.bass)

\* C3: for a chord of root r, quality q and optional bass b and N # 0,
\* transposeChord returns spell((pc(r) + N) mod 12) then q unchanged then
\* "/" spell((pc(b) + N) mod 12) when there is a bass, spelled from the flat
\* table when useFlats and from the sharp table otherwise.
C3_ShiftFormula ==
  Done("transposeChord") /\ args.semitones # 0 =>
    \A c \in componentsOf(args.chord) :
      /\ ~ret.err
      /\ ret.val =
           spell((pitchClassOf(c.root) + args.semitones) % 12, args.useFlats)
           \o c.quality
           \o (IF c.bass = <<>> THEN <<>>
               ELSE <<"/">> \o spell((pitchClassOf(c.bass) + args.semitones) % 12,
                                      args.useFlats))

\* C4: the note lookup maps every sharp-table spelling to its index, every
\* flat-table spelling to the pitch class of its enharmonic sharp, and
\* fails only for a note that after normalisation is none of the 12 NOTES.
C4_NoteLookup ==
  Done("getNoteIndex") =>
    /\ args.note \in NoteSpellings =>
         ~ret.err /\ ret.val = pitchClassOf(args.note)
    /\ ret.err => indexOf(NOTES, normalizeToSharp(args.note)) = -1

\* C5: for all keys A, B of the 24 key names keyDistance(A, B) is an
\* integer d in -6 .. 6 with (pc(A) + d) mod 12 = pc(B), and
\* keyDistance(B, A) = -d.
C5_KeyDistance ==
  Done("getSemitoneDistance") =>
    /\ ~ret.err
    /\ ret.val \in (0 - 6)..6
    /\ (keyIndexOf(args.fromKey) + ret.val) % 12 = keyIndexOf(args.toKey)
    /\ LET reverse == getSemitoneDistance(args.toKey, args.fromKey)
       IN  ~reverse.err /\ reverse.val = 0 - ret.val

-----------------------------------------------------------------------------
(* Bracketed tokens of a lyric text, as the properties speak of them.      *)

\* position of the "]" closing the token that opens at i, 0 if i opens none:
\* a token is "[", some text without brackets, "]"
tokenClose(s, i) ==
  IF at(s, i) = "[" /\ firstClose(s, i) >= i + 2
     /\ \A k \in (i + 1)..(firstClose(s, i) - 1) : s[k] # "["
  THEN firstClose(s, i)
  ELSE 0

\* the contents of the bracketed tokens of s from position i on, in order
RECURSIVE bracketTokens(_, _)
bracketTokens(s, i) ==
  IF i > Len(s) THEN <<>>
  ELSE IF tokenClose(s, i) = 0 THEN bracketTokens(s, i + 1)
  ELSE <<SubSeq(s, i + 1, tokenClose(s, i) - 1)>> \o bracketTokens(s, tokenClose(s, i) + 1)

\* s from position i on with the content of every bracketed token removed
RECURSIVE outsideBrackets(_, _)
outsideBrackets(s, i) ==
  IF i > Len(s) THEN <<>>
  ELSE IF tokenClose(s, i) = 0 THEN <<s[i]>> \o outsideBrackets(s, i + 1)
  ELSE <<"[", "]">> \o outsideBrackets(s, tokenClose(s, i) + 1)

\* the elements of seq that are not documented chords, in order
RECURSIVE nonChords(_)
nonChords(seq) ==
  IF seq = <<>> THEN <<>>
  ELSE (IF isDocumentedChord(Head(seq)) THEN <<>> ELSE <<Head(seq)>>) \o nonChords(Tail(seq))

\* s from position i on with every bracketed documented chord [X] replaced
\* by [transposeChord(X, semitones)] and nothing else changed
RECURSIVE chordTokensTransposed(_, _, _)
chordTokensTransposed(s, i, semitones) ==
  IF i > Len(s) THEN Ok(<<>>)
  ELSE IF tokenClose(s, i) # 0 /\ isDocumentedChord(SubSeq(s, i + 1, tokenClose(s, i) - 1))
  THEN LET chord == transposeChord(SubSeq(s, i + 1, tokenClose(s, i) - 1), semitones, FALSE)
           rest  == chordTokensTransposed(s, tokenClose(s, i) + 1, semitones)
       IN  IF chord.err THEN chord
           ELSE IF rest.err THEN rest
           ELSE Ok(<<"[">> \o chord.val \o <<"]">> \o rest.val)
  ELSE LET rest == chordTokensTransposed(s, i + 1, semitones)
       IN  IF rest.err THEN rest ELSE Ok(<<s[i]>> \o rest.val)

\* C6: for N # 0 transposeLyrics replaces every bracketed chord token [X] by
\* [transposeChord(X, N)], on chord-only lines and on lines with lyric text,
\* for every X of root + documented quality + optional slash-bass.
C6_ChordTokensTransposed ==
  ( /\ Done("transposeLyrics")
    /\ args.semitones # 0
    /\ \A i \in 1..Len(bracketTokens(args.lyrics, 1)) :
         isDocumentedChord(bracketTokens(args.lyrics, 1)[i]) )
  => LET want == chordTokensTransposed(args.lyrics, 1, args.semitones)
     IN  want.err \/ (~ret.err /\ ret.val = want.val)

\* C7: transposeLyrics alters nothing but bracketed chord tokens: the output
\* has as many lines as the input, the text outside brackets is unchanged, a
\* line without a bracketed chord is unmodified, and a bracketed token that
\* is no chord (a section label) is the same in input and output.
C7_OnlyChordTokensChange ==
  Done("transposeLyrics") /\ ~ret.err =>
    LET linesIn  == split(args.lyrics)
        linesOut == split(ret.val)
    IN  /\ Len(linesOut) = Len(linesIn)
        /\ outsideBrackets(ret.val, 1) = outsideBrackets(args.lyrics, 1)
        /\ \A k \in 1..Len(linesIn) :
             (\A i \in 1..Len(bracketTokens(linesIn[k], 1)) :
                ~isDocumentedChord(bracketTokens(linesIn[k], 1)[i]))
             => k <= Len(linesOut) /\ linesOut[k] = linesIn[k]
        /\ nonChords(bracketTokens(ret.val, 1)) = nonChords(bracketTokens(args.lyrics, 1))

\* C8: the transposition path never raises: transposeLyrics(t, N) returns a
\* text for every text t and every N, and detectKey returns a result for
\* every chord list.
C8_NeverRaises ==
  (Done("transposeLyrics") \/ Done("detectKey")) => ~ret.err

-----------------------------------------------------------------------------
(* Key candidates, as the properties speak of them.                        *)

\* the distinct roots of chords by descending frequency, equal frequencies
\* in order of first occurrence
rootsByFrequency(chords) ==
  LET roots  == [i \in 1..Len(chords) |-> parseChord(chords[i]).root]
      firsts == { i \in 1..Len(roots) : \A j \in 1..(i-1) : roots[j] # roots[i] }
      freq(i) == Cardinality({ j \in 1..Len(roots) : roots[j] = roots[i] })
      ahead(j, i) == freq(j) > freq(i) \/ (freq(j) = freq(i) /\ j < i)
  IN  [k \in 1..Cardinality(firsts) |->
         roots[CHOOSE i \in firsts :
                 Cardinality({ j \in firsts : ahead(j, i) }) = k - 1]]

majorKeyAt(pitchClass) ==
  MAJOR_KEYS[CHOOSE i \in 1..Len(MAJOR_KEYS) : MAJOR_KEYS[i].index = pitchClass].name
minorKeyAt(pitchClass) ==
  MINOR_KEYS[CHOOSE i \in 1..Len(MINOR_KEYS) : MINOR_KEYS[i].index = pitchClass].name

\* major key then minor key of every root of roots, in order
RECURSIVE candidateKeys(_)
candidateKeys(roots) ==
  IF roots = <<>> THEN <<>>
  ELSE <<majorKeyAt(pitchClassOf(Head(roots))), minorKeyAt(pitchClassOf(Head(roots)))>>
       \o candidateKeys(Tail(roots))

allDocumentedChords(chords) ==
  \A i \in 1..Len(chords) : isDocumentedChord(chords[i])

\* C9: for a non-empty chord list possibleKeys is the first 5 entries of the
\* duplicate-free list of the major and minor key of every distinct root, the
\* roots taken by descending frequency and then first occurrence; for the
\* empty list possibleKeys is the 12 major key names and detectedKey is "C".
C9_PossibleKeys ==
  Done("detectKey") /\ allDocumentedChords(args.chords) =>
    /\ ~ret.err
    /\ IF args.chords = <<>>
       THEN /\ ret.val.possibleKeys = [i \in 1..Len(MAJOR_KEYS) |-> MAJOR_KEYS[i].name]
            /\ ret.val.detectedKey = <<"C">>
       ELSE ret.val.possibleKeys =
              firstN(uniqueKeys(candidateKeys(rootsByFrequency(args.chords))), 5)

\* C10: when every chord of a non-empty list signals minor, detectedKey is
\* the minor key of the most frequent root; in every other case it is the
\* major key of the most frequent root.
C10_Disposition ==
  ( /\ Done("detectKey")
    /\ args.chords # <<>>
    /\ allDocumentedChords(args.chords)
    /\ ~ret.err )
  => LET top == pitchClassOf(rootsByFrequency(args.chords)[1])
     IN  IF \A i \in 1..Len(args.chords) : signalsMinor(args.chords[i])
         THEN ret.val.detectedKey = minorKeyAt(top)
              /\ endsWith(ret.val.detectedKey, <<"m">>)
         ELSE ret.val.detectedKey = majorKeyAt(top)

-----------------------------------------------------------------------------
(* C11 .. C20                                                              *)

\* the confidence band of a chord count
confidenceBand(n) == IF n <= 5 THEN "low" ELSE IF n <= 10 THEN "medium" ELSE "high"

\* C11: the confidence detectKey returns depends only on the number of input
\* chords, repeats counted: low for 0 to 5 chords, medium for 6 to 10, high
\* for more than 10.
C11_ConfidenceBands ==
  Done("detectKey") /\ ~ret.err =>
    ret.val.confidence = confidenceBand(Len(args.chords))

C11_Witness ==
  /\ Done("detectKey")
  /\ Len(args.chords) = 11
  /\ ~ret.err
  /\ ret.val.confidence = "high"

\* the distance from key A to key B: the difference of their pitch classes
\* wrapped into -6 .. 6
keyDistance(A, B) ==
  LET raw == keyIndexOf(B) - keyIndexOf(A)
  IN  IF raw > 6 THEN raw - 12 ELSE IF raw < 0 - 6 THEN raw + 12 ELSE raw

\* seq holds exactly the elements of want, each once
isArrangementOf(seq, want) ==
  /\ Len(seq) = Len(want)
  /\ \A i \in 1..Len(want) : Cardinality({ k \in 1..Len(seq) : seq[k] = want[i] }) = 1

\* C12: suggestEasyModeKeys(currentKey) returns exactly the 8 beginner keys
\* G, C, D, A, E, Am, Em, Dm, each paired with keyDistance(currentKey, key),
\* by ascending absolute distance, equal absolute distances in the order of
\* the beginner set; for currentKey "C" the first element is "C" at 0.
C12_EasyKeys ==
  Done("suggestEasyModeKeys") =>
    /\ ~ret.err
    /\ isArrangementOf([i \in 1..Len(ret.val) |-> ret.val[i].key], BEGINNER_KEYS)
    /\ \A i \in 1..Len(ret.val) :
         ret.val[i].distance = keyDistance(args.currentKey, ret.val[i].key)
    /\ \A i \in 1..Len(ret.val) : \A j \in (i + 1)..Len(ret.val) :
         \/ abs(ret.val[i].distance) < abs(ret.val[j].distance)
         \/ /\ abs(ret.val[i].distance) = abs(ret.val[j].distance)
            /\ indexOf(BEGINNER_KEYS, ret.val[i].key) < indexOf(BEGINNER_KEYS, ret.val[j].key)
    /\ args.currentKey = <<"C">> =>
         ret.val[1] = [key |-> <<"C">>, distance |-> 0]

-----------------------------------------------------------------------------
(* Validation results, as the properties speak of them.                    *)

DoneValidation ==
  pc = "done"
  /\ call \in {"validateMetadata", "validateLyrics", "validateParsedSong", "validateSong"}

\* the positions of the errors of given severity
withSeverity(errors, severity) ==
  { i \in 1..Len(errors) : errors[i].severity = severity }

\* C13: every ValidationResult returned by validateMetadata, validateLyrics,
\* validateParsedSong and validateSong has valid = (no error has severity
\* critical); warnings and major or minor errors never make it invalid.
C13_ValidIffNoCritical ==
  DoneValidation => (ret.valid <=> withSeverity(ret.errors, "critical") = {})

C13_Witness ==
  /\ Done("validateMetadata")
  /\ ret.valid
  /\ withSeverity(ret.errors, "major") # {}
  /\ ret.warnings # <<>>

\* a property that is absent, empty or made of white space only
isBlankText(obj, key) ==
  key \notin DOMAIN obj \/ \A i \in 1..Len(obj[key]) : obj[key][i] \in WhiteSpace

isMissingId(metadata) == "id" \notin DOMAIN metadata \/ metadata.id = 0

\* the well-formed http and https URLs among the inputs
WellFormedUrls == { <<"h","t","t","p",":","/","/","a",".","b">>, GoodUrl }

isMalformedUrl(metadata) ==
  /\ "url" \in DOMAIN metadata
  /\ metadata.url # <<>>
  /\ metadata.url \notin WellFormedUrls

\* the [field, severity] pairs validateMetadata is to report, in order
metadataFindings(metadata) ==
  (IF isMissingId(metadata) THEN << <<"id", "critical">> >> ELSE <<>>)
  \o (IF isBlankText(metadata, "title") THEN << <<"title", "critical">> >> ELSE <<>>)
  \o (IF isBlankText(metadata, "artist") THEN << <<"artist", "critical">> >> ELSE <<>>)
  \o (IF isMalformedUrl(metadata) THEN << <<"url", "major">> >> ELSE <<>>)

\* C14: validateMetadata reports, in this order, a critical error for a
\* missing id (any falsy id, 0 included), a critical error for a missing or
\* whitespace-only title, a critical error for a missing or whitespace-only
\* artist, and a major error for a non-empty url that is not a well-formed
\* http/https URL; the result is valid exactly when none of the three critical
\* conditions holds, so a malformed url alone leaves it valid.
C14_MetadataErrors ==
  Done("validateMetadata") =>
    /\ [i \in 1..Len(ret.errors) |-> <<ret.errors[i].field, ret.errors[i].severity>>]
         = metadataFindings(args.metadata)
    /\ ret.valid <=> ~( \/ isMissingId(args.metadata)
                        \/ isBlankText(args.metadata, "title")
                        \/ isBlankText(args.metadata, "artist") )

\* scenario 5: id 0, empty title, artist "X", url "not a url"
C14_Witness ==
  /\ Done("validateMetadata")
  /\ args.metadata = SongMetadata(<<0>>, <<>>, ArtistX, <<"n","o","t"," ","a"," ","u","r","l">>)
  /\ Len(ret.errors) = 3
  /\ withSeverity(ret.errors, "critical") = {1, 2}
  /\ withSeverity(ret.errors, "major") = {3}
  /\ ~ret.valid

\* the least number of single-character insertions, deletions and
\* substitutions that turn a into b
RECURSIVE editDistance(_, _)
editDistance(a, b) ==
  IF a = <<>> THEN Len(b)
  ELSE IF b = <<>> THEN Len(a)
  ELSE IF Head(a) = Head(b) THEN editDistance(Tail(a), Tail(b))
  ELSE 1 + min3(editDistance(Tail(a), b),
                editDistance(a, Tail(b)),
                editDistance(Tail(a), Tail(b)))

\* the similarity of two lower-cased titles is below 0.9
dissimilar(a, b) ==
  /\ a # b
  /\ \/ includes(a, b) \/ includes(b, a)
     \/ 10 * editDistance(a, b) > (IF Len(a) > Len(b) THEN Len(a) ELSE Len(b))

titlesCompared ==
  /\ Done("validateMetadata")
  /\ args.expectedTitle \notin {Undefined, <<>>}
  /\ "title" \in DOMAIN args.metadata
  /\ args.metadata.title # <<>>

\* C15: when the expected and the actual title are both non-empty,
\* validateMetadata adds exactly one title warning if and only if their
\* similarity is below 0.9, the similarity of the lower-cased strings being 1
\* when they are equal, 0.8 when they differ and one contains the other, and
\* otherwise 1 - editDistance / max(length); so titles equal up to letter case
\* never warn, a title strictly containing the expected one always warns, and
\* the warning never changes valid.
C15_TitleWarning ==
  titlesCompared =>
    /\ Len(ret.warnings) =
         (IF dissimilar(toLowerCase(args.metadata.title), toLowerCase(args.expectedTitle))
          THEN 1 ELSE 0)
    /\ \A i \in 1..Len(ret.warnings) : ret.warnings[i].field = "title"
    /\ toLowerCase(args.metadata.title) = toLowerCase(args.expectedTitle)
         => ret.warnings = <<>>
    /\ ( /\ includes(args.metadata.title, args.expectedTitle)
         /\ args.metadata.title # args.expectedTitle ) => Len(ret.warnings) = 1
    /\ ret.valid <=> withSeverity(ret.errors, "critical") = {}
    /\ ret.errors = validateMetadata(args.metadata, Undefined).errors

C15_Witness ==
  /\ titlesCompared
  /\ args.metadata.title = <<"H","e","y"," ","J","u","d","e"," ","(","L","i","v","e",")">>
  /\ args.expectedTitle = HeyJude
  /\ Len(ret.warnings) = 1
  /\ ret.valid

isBlankLyrics(lyrics) ==
  lyrics = Undefined \/ \A i \in 1..Len(lyrics) : lyrics[i] \in WhiteSpace

\* C16: validateLyrics returns valid = false with exactly one critical error
\* on field lyrics and no warnings for an empty or whitespace-only text,
\* valid = false with a critical error for a non-blank text of fewer than 100
\* characters, and valid = true for every non-blank text of at least 100
\* characters, whatever truncation indicators or sections it has.
C16_LyricsFloor ==
  Done("validateLyrics") =>
    IF isBlankLyrics(args.lyrics)
    THEN /\ ~ret.valid
         /\ Len(ret.errors) = 1
         /\ ret.errors[1].field = "lyrics"
         /\ ret.errors[1].severity = "critical"
         /\ ret.warnings = <<>>
    ELSE IF Len(args.lyrics) < 100
    THEN ~ret.valid /\ withSeverity(ret.errors, "critical") # {}
    ELSE ret.valid

C16_Witness ==
  /\ Done("validateLyrics")
  /\ args.lyrics # Undefined
  /\ Len(args.lyrics) = 100
  /\ ~isBlankLyrics(args.lyrics)
  /\ ret.valid
  /\ ret.warnings # <<>>

\* the retry count validateSong works with, and the results of its two checks
retryCountOf(options) == IF "retryCount" \in DOMAIN options THEN options.retryCount ELSE 0
metadataChecked == validateMetadata(args.metadata, get(args.options, "expectedTitle"))
lyricsChecked == validateLyrics(args.lyrics)

\* C17: validateSong runs the metadata check and then the lyrics check: with
\* retryCount >= 2 and an invalid metadata result it returns exactly the
\* metadata result; otherwise with retryCount >= 2 and an invalid lyrics
\* result it returns exactly the lyrics result; in every other case it returns
\* the metadata errors followed by the lyrics errors, the metadata warnings
\* followed by the lyrics warnings, and valid recomputed from the critical
\* errors of that union.
C17_SongOrchestration ==
  Done("validateSong") =>
    IF retryCountOf(args.options) >= 2 /\ ~metadataChecked.valid
    THEN ret = metadataChecked
    ELSE IF retryCountOf(args.options) >= 2 /\ ~lyricsChecked.valid
    THEN ret = lyricsChecked
    ELSE /\ ret.errors = metadataChecked.errors \o lyricsChecked.errors
         /\ ret.warnings = metadataChecked.warnings \o lyricsChecked.warnings
         /\ ret.valid <=> withSeverity(ret.errors, "critical") = {}

C17_Witness ==
  /\ Done("validateSong")
  /\ retryCountOf(args.options) = 2
  /\ metadataChecked.valid
  /\ ~lyricsChecked.valid
  /\ metadataChecked.errors # <<>>
  /\ ret = lyricsChecked

\* every finding of the two checks is among those of the returned result
findingsKept ==
  /\ range(metadataChecked.errors) \cup range(lyricsChecked.errors) \subseteq range(ret.errors)
  /\ range(metadataChecked.warnings) \cup range(lyricsChecked.warnings)
       \subseteq range(ret.warnings)

\* C18 as stated: for every metadata, lyrics and retryCount, every error and
\* every warning that validateMetadata(metadata, expectedTitle) or
\* validateLyrics(lyrics) reports also appears in the result of validateSong.
C18_NoFindingSwallowed ==
  Done("validateSong") => findingsKept

\* C18 as the code has it: the findings of both checks appear in the result
\* of validateSong whenever retryCount < 2 or both checks pass; with
\* retryCount >= 2 the result of the first failing check is returned alone.
C18_FindingsKeptWithinBudget ==
  Done("validateSong") =>
    /\ (retryCountOf(args.options) < 2 \/ (metadataChecked.valid /\ lyricsChecked.valid))
         => findingsKept
    /\ ~findingsKept => ret \in {metadataChecked, lyricsChecked}

C18_Witness ==
  /\ Done("validateSong")
  /\ retryCountOf(args.options) = 1
  /\ ~metadataChecked.valid
  /\ ~lyricsChecked.valid
  /\ lyricsChecked.warnings # <<>>
  /\ findingsKept

\* C19: adding a critical error to a result, or unioning it with a result
\* that has one, can turn valid from true to false and never from false to
\* true; validateSong's result is valid only if the metadata result and the
\* lyrics result both are, and validateParsedSong's only if the metadata
\* result is.
C19_Monotonic ==
  /\ DoneValidation =>
       /\ ~Result(Append(ret.errors, critical("sections", <<"No song sections found">>)),
                  ret.warnings).valid
       /\ ~ret.valid =>
            \A more \in {<<>>, <<critical("lyrics", <<"Lyrics are empty">>)>>,
                         <<[field |-> "url", message |-> <<"Invalid song URL">>,
                            severity |-> "major"]>>} :
              /\ ~Result(ret.errors \o more, ret.warnings).valid
              /\ ~Result(more \o ret.errors, ret.warnings).valid
  /\ Done("validateSong") /\ ret.valid => metadataChecked.valid /\ lyricsChecked.valid
  /\ Done("validateParsedSong") /\ ret.valid
       => validateMetadata(args.song.metadata, Undefined).valid

C19_Witness ==
  /\ Done("validateSong")
  /\ retryCountOf(args.options) < 2
  /\ metadataChecked.valid
  /\ metadataChecked.errors # <<>>
  /\ ~lyricsChecked.valid
  /\ ~ret.valid

\* the sections of a song whose content is absent or blank
blankSections(song) ==
  { i \in 1..Len(song.sections) : isBlankText(song.sections[i], "content") }

\* the warnings validateParsedSong returns after those of the metadata check
addedWarnings ==
  SubSeq(ret.warnings,
         Len(validateMetadata(args.song.metadata, Undefined).warnings) + 1,
         Len(ret.warnings))

\* C20: validateParsedSong returns the errors and warnings of the metadata
\* check followed by a critical sections error if and only if the song has no
\* section, and by one sections warning if and only if some section has blank
\* content; the result is valid exactly when the metadata is valid and the song
\* has a section, whatever its blank sections and detected chords.
C20_ParsedSong ==
  Done("validateParsedSong") =>
    /\ SubSeq(ret.errors, 1, Len(validateMetadata(args.song.metadata, Undefined).errors))
         = validateMetadata(args.song.metadata, Undefined).errors
    /\ [i \in 1..(Len(ret.errors) - Len(validateMetadata(args.song.metadata, Undefined).errors))
          |-> <<ret.errors[i + Len(validateMetadata(args.song.metadata, Undefined).errors)].field,
                ret.errors[i + Len(validateMetadata(args.song.metadata, Undefined).errors)].severity>>]
         = (IF Len(args.song.sections) = 0 THEN << <<"sections", "critical">> >> ELSE <<>>)
    /\ SubSeq(ret.warnings, 1, Len(validateMetadata(args.song.metadata, Undefined).warnings))
         = validateMetadata(args.song.metadata, Undefined).warnings
    /\ Cardinality({ i \in 1..Len(addedWarnings) : addedWarnings[i].field = "sections" })
         = (IF blankSections(args.song) # {} THEN 1 ELSE 0)
    /\ \A i \in 1..Len(addedWarnings) :
         \/ addedWarnings[i].field = "sections" /\ i = 1
         \/ addedWarnings[i].field = "chords"
    /\ ret.valid <=> ( /\ validateMetadata(args.song.metadata, Undefined).valid
                       /\ Len(args.song.sections) > 0 )

C20_Witness ==
  /\ Done("validateParsedSong")
  /\ blankSections(args.song) # {}
  /\ Len(args.song.sections) = 2
  /\ args.song.detectedChords # <<>>
  /\ ret.valid
  /\ Len(ret.warnings) = 2

-----------------------------------------------------------------------------
(* C21 .. C30                                                              *)

\* C21: isChord(text) is true for every text that, after trimming, is a root
\* (A-G with optional # or b), one documented quality suffix written directly
\* after the root, and optionally a slash followed by a bass note; C, Am, C7,
\* Am7, Cmaj7, C/E and Am/G are all accepted.
C21_DocumentedChordsAccepted ==
  Done("isChord") /\ isDocumentedChord(trim(args.text)) => ret

\* the note a text starts with, and the note of the '/note' the text after
\* the root ends with (<<>> when it ends with none)
startsWithNote(t) == Len(t) >= 1 /\ t[1] \in {"A","B","C","D","E","F","G"}
leadingNote(t) == SubSeq(t, 1, IF Len(t) >= 2 /\ t[2] \in {"#","b"} THEN 2 ELSE 1)
trailingBass(rest) ==
  IF \E l \in {"A","B","C","D","E","F","G"}, a \in {<<>>, <<"#">>, <<"b">>} :
       endsWith(rest, <<"/", l>> \o a)
  THEN CHOOSE n \in { <<l>> \o a : l \in {"A","B","C","D","E","F","G"},
                                   a \in {<<>>, <<"#">>, <<"b">>} } :
         endsWith(rest, <<"/">> \o n)
  ELSE <<>>

\* C22: parseChord returns for every string; when the trimmed text starts
\* with a note the root is that note, the bass is the note of a trailing
\* '/note' if the text ends with one, the quality is everything in between
\* and root + quality + '/' + bass is the trimmed text; otherwise the result
\* is the original text as root, an empty quality and no bass.
C22_ParseChordLossless ==
  Done("parseChord") =>
    IF startsWithNote(trim(args.chord))
    THEN /\ ret.root = leadingNote(trim(args.chord))
         /\ ret.bass = trailingBass(slice(trim(args.chord), Len(leadingNote(trim(args.chord)))))
         /\ ret.root \o ret.quality \o (IF ret.bass = <<>> THEN <<>> ELSE <<"/">> \o ret.bass)
              = trim(args.chord)
    ELSE ret = [root |-> args.chord, quality |-> <<>>, bass |-> <<>>]

\* the positions after \d* and after \s* read at a position of P
afterDigits(s, P) ==
  { e \in 1..(Len(s) + 1) :
      \E p \in P : p <= e /\ \A k \in p..(e - 1) :
                               s[k] \in {"0","1","2","3","4","5","6","7","8","9"} }
afterBlanks(s, P) == P \cup afterWhiteSpace(s, P)

\* a header line: a section word, an optional numeral, an optional colon and
\* nothing else, letter case ignored
isHeaderOf(lower, word) ==
  (Len(lower) + 1) \in
    afterBlanks(lower,
      afterOptional(lower,
        afterDigits(lower, afterBlanks(lower, afterWord(lower, {1}, word))), <<":">>))

headerTypeOf(lower) ==
  IF isHeaderOf(lower, <<"i","n","t","r","o">>) THEN "intro"
  ELSE IF isHeaderOf(lower, <<"v","e","r","s","e">>) THEN "verse"
  ELSE IF isHeaderOf(lower, <<"p","r","e","-","c","h","o","r","u","s">>) THEN "pre-chorus"
  ELSE IF isHeaderOf(lower, <<"c","h","o","r","u","s">>) THEN "chorus"
  ELSE IF isHeaderOf(lower, <<"b","r","i","d","g","e">>) THEN "bridge"
  ELSE IF isHeaderOf(lower, <<"o","u","t","r","o">>) THEN "outro"
  ELSE ""

\* the sections of the lines: <<type, lines>> in text order, a section being
\* emitted when it has a non-blank line
emitted(sections, current) ==
  IF current[2] # <<>> THEN Append(sections, current) ELSE sections

RECURSIVE segments(_, _, _)
segments(lines, sections, current) ==
  IF lines = <<>> THEN emitted(sections, current)
  ELSE IF headerTypeOf(toLowerCase(Head(lines))) # ""
  THEN segments(Tail(lines), emitted(sections, current),
                <<headerTypeOf(toLowerCase(Head(lines))), <<>>>>)
  ELSE IF \E i \in 1..Len(Head(lines)) : Head(lines)[i] \notin WhiteSpace
  THEN segments(Tail(lines), sections, <<current[1], Append(current[2], Head(lines))>>)
  ELSE segments(Tail(lines), sections, current)

segmentsOf(lyrics) == segments(split(lyrics), <<>>, <<"other", <<>>>>)

sectionCountWarnings(warnings) ==
  { i \in 1..Len(warnings) : warnings[i].message[1] = "Only " }

\* C23: the segmenter scans the lines in order: a header line starts a new
\* section of its type, every non-blank line that is not a header is appended
\* to the current section, a section is emitted only with non-blank content,
\* the text before the first header is a section of type other, and
\* validateLyrics adds its section-count warning exactly when fewer than 2
\* sections are emitted.
C23_Segmenter ==
  Done("validateLyrics") /\ ~isBlankLyrics(args.lyrics) =>
    /\ [i \in 1..Len(parseSections(args.lyrics)) |->
          <<parseSections(args.lyrics)[i].type,
            split(parseSections(args.lyrics)[i].content)>>]
         = segmentsOf(args.lyrics)
    /\ sectionCountWarnings(ret.warnings) # {} <=> Len(segmentsOf(args.lyrics)) < 2

\* the detected chords isChord rejects
rejectedByIsChord(chords) == { i \in 1..Len(chords) : ~isChord(chords[i]) }
chordsWarnings(warnings) == { i \in 1..Len(warnings) : warnings[i].field = "chords" }

\* C24: validateParsedSong adds its chords warning if and only if at least
\* one detected chord is rejected by isChord, and the warning counts exactly
\* the chords isChord rejects.
C24_SameRecogniser ==
  Done("validateParsedSong") =>
    /\ chordsWarnings(ret.warnings) # {} <=> rejectedByIsChord(args.song.detectedChords) # {}
    /\ \A i \in chordsWarnings(ret.warnings) :
         ret.warnings[i].message[1]
           = ToString(Cardinality(rejectedByIsChord(args.song.detectedChords)))

majorNames == { MAJOR_KEYS[i].name : i \in 1..Len(MAJOR_KEYS) }
minorNames == { MINOR_KEYS[i].name : i \in 1..Len(MINOR_KEYS) }

\* C26: for every major key K of the table getRelativeMajor(getRelativeMinor(K))
\* = K, for every minor key k of the table getRelativeMinor(getRelativeMajor(k))
\* = k, and the returned names are names of the tables.
C26_RelativeKeysInverse ==
  /\ Done("getRelativeMinor") /\ args.majorKey \in majorNames =>
       ret \in minorNames /\ getRelativeMajor(ret) = args.majorKey
  /\ Done("getRelativeMajor") /\ args.minorKey \in minorNames =>
       ret \in majorNames /\ getRelativeMinor(ret) = args.minorKey

\* C27: whenever detectKey returns a result, for an empty or a non-empty chord
\* list and in both the minor-biased and the default branch, the returned
\* detectedKey is one of the returned possibleKeys.
C27_DetectedKeyIsCandidate ==
  Done("detectKey") /\ ~ret.err =>
    \E i \in 1..Len(ret.val.possibleKeys) : ret.val.possibleKeys[i] = ret.val.detectedKey

C27_Witness ==
  /\ Done("detectKey")
  /\ ~ret.err
  /\ Len(args.chords) > 1
  /\ endsWith(ret.val.detectedKey, <<"m">>)
  /\ ret.val.possibleKeys[2] = ret.val.detectedKey

\* the options with the retry counter replaced by r
withRetryCount(options, r) ==
  [k \in DOMAIN options \cup {"retryCount"} |-> IF k = "retryCount" THEN r ELSE options[k]]

\* C28: for fixed metadata, lyrics and expectedTitle validateSong returns the
\* same valid value for every retryCount, below, at or above the budget of 2:
\* true exactly when both the metadata check and the lyrics check are valid.
C28_VerdictIgnoresRetries ==
  Done("validateSong") =>
    /\ ret.valid <=> (metadataChecked.valid /\ lyricsChecked.valid)
    /\ \A r \in 0..(MAX_RETRIES + 1) :
         validateSong(args.metadata, args.lyrics, withRetryCount(args.options, r)).valid
           = ret.valid

C28_Witness ==
  /\ Done("validateSong")
  /\ retryCountOf(args.options) = MAX_RETRIES
  /\ metadataChecked.valid
  /\ ~lyricsChecked.valid
  /\ ~ret.valid
  /\ ret = lyricsChecked

\* C25: in useTranspose, after any sequence of setSemitones,
\* incrementSemitones, decrementSemitones, setTargetKey and reset from the
\* initial state, semitones is an integer in [-12, 12]; incrementing at 12 and
\* decrementing at -12 leave it unchanged, and reset returns it to 0 with
\* targetKey cleared.
C25_SemitonesBounded ==
  /\ [](call = "useTranspose" => hook.semitones \in (0 - 12)..12)
  /\ [][incrementSemitones /\ hook.semitones = 12 => hook'.semitones = 12]_vars
  /\ [][decrementSemitones /\ hook.semitones = 0 - 12 => hook'.semitones = 0 - 12]_vars
  /\ [][reset => hook'.semitones = 0 /\ hook'.targetKey = Undefined]_vars

Mounted(name) == pc = "mounted" /\ call = name

C25_Witness ==
  /\ Mounted("useTranspose")
  /\ hook.semitones = 12
  /\ hook.targetKey # Undefined
  /\ ~ret.err

knownOriginalKey ==
  call = "useTranspose" /\ get(args.options, "originalKey") \notin {Undefined, <<>>}

\* C29: in useTranspose with a known originalKey, after any sequence of
\* setSemitones, incrementSemitones, decrementSemitones, setTargetKey and
\* reset, whenever targetKey is set it is a key name and semitones equals
\* keyDistance(originalKey, targetKey); setSemitones(n) completes and sets
\* targetKey to the key n semitones away from originalKey.
C29_ShiftMatchesTarget ==
  /\ [](knownOriginalKey /\ hook.targetKey # Undefined =>
          /\ hook.targetKey \in range(getAllKeys)
          /\ hook.semitones = keyDistance(args.options.originalKey, hook.targetKey))
  /\ [][setSemitones /\ knownOriginalKey =>
          /\ ~ret'.err
          /\ hook'.targetKey \in range(getAllKeys)
          /\ (keyIndexOf(hook'.targetKey) - keyIndexOf(args.options.originalKey)
                - hook'.semitones) % 12 = 0]_vars

\* C30: in useAutoScroll, once playback was started and an animation frame
\* finds the new position at or beyond the maximum scroll offset, the hook
\* ends paused: currentPosition is the maximum offset, isPlaying is false, no
\* further frame is scheduled and onComplete is invoked; and isPlaying is true
\* only while an animation frame is pending.
C30_EndsPaused ==
  /\ [][animate /\ ret'.val = <<"onComplete">> =>
          /\ hook'.currentPosition = args.maxScroll
          /\ ~hook'.isPlaying
          /\ hook'.pending = <<>>]_vars
  /\ [](call = "useAutoScroll" /\ hook.isPlaying => hook.pending # <<>>)

====
